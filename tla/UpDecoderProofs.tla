--------------------------- MODULE UpDecoderProofs --------------------------
(***************************************************************************)
(* Proofs about UpDecoder, for every stream of bytes, every way of cutting *)
(* it into chunks and every choice of the length constants: the cursor     *)
(* stays in the buffer, the residual stays below one packet, and the       *)
(* callbacks keep their grammar; and of streams made of packets            *)
(* (CameraStream), that the chunks do not show.  What follows for          *)
(* UseeplusVideoStream, which adds the callbacks, comes at the end.        *)
(***************************************************************************)
EXTENDS UseeplusVideoStream, CameraStream, SequenceTheorems, WellFoundedInduction, TLAPS

USE StreamsAssumption, ChunkAssumption, LengthsAssumption

\* A set of numbers that is not empty has a least element.
LEMMA LeastIsLeast ==
  ASSUME NEW S, S \subseteq Nat, S # {}
  PROVE  Least(S) \in S /\ \A x \in S : Least(S) <= x
<1> DEFINE R == {p \in Nat \X Nat : p[1] < p[2]}
<1>1. IsWellFoundedOn(R, Nat)
  BY NatLessThanWellFounded, Zenon DEF OpToRel
<1>2. \E x \in S : \A y \in S : x <= y
  <2>1. PICK x \in S : \A y \in S : <<y, x>> \notin R
    <3> HIDE DEF R
    <3> QED BY <1>1, WFMin, Zenon
  <2>2. ASSUME NEW y \in S PROVE x <= y
    <3>1. ~(y < x)
      BY <2>1, Zenon
    <3> QED BY <3>1
  <2> QED BY <2>2
<1> QED BY <1>2 DEF Least

LEMMA LeastInSet ==
  ASSUME NEW S, S \subseteq Nat, S # {}
  PROVE  Least(S) \in S
BY LeastIsLeast

\* The lengths of the format are numbers.
LEMMA LengthTypes ==
  /\ DATA_OFFSET \in Nat
  /\ DATA_OFFSET = HDR_LEN + FRAG_HDR_LEN
BY DEF DATA_OFFSET

-----------------------------------------------------------------------------
(* What a turn of the loop reads lies in the buffer.                       *)

\* The header's fields are read inside the buffer when a header's length is left.
LEMMA ReadInBuffer ==
  ASSUME TypeOK, InLoop
  PROVE  /\ PlLen(cur_pos) \in Nat
         /\ usb_frm_len \in Nat
         /\ FrameId(cur_pos) \in Nat
         /\ Flags(cur_pos) \in Nat
<1>1. /\ buf \in Seq(Nat) /\ cur_pos \in Nat /\ Len(buf) \in Nat
      /\ cur_pos + HDR_LEN + 2 <= Len(buf)
  BY LengthTypes, LenProperties DEF TypeOK, InLoop
<1>2. /\ cur_pos + 2 \in 1 .. Len(buf)
      /\ cur_pos + HDR_LEN + 1 \in 1 .. Len(buf)
      /\ cur_pos + HDR_LEN + 2 \in 1 .. Len(buf)
  BY <1>1
<1>3. \A n \in 1 .. Len(buf) : buf[n] \in Nat
  BY <1>1, ElementOfSeq
<1> QED BY <1>1, <1>2, <1>3, SMTT(60) DEF PlLen, usb_frm_len, FrameId, Flags

\* The next header that makes this one a ghost starts inside the buffer.
LEMMA GhostInBuffer ==
  ASSUME TypeOK, InLoop, GhostOffsets # {}
  PROVE  /\ Least(GhostOffsets) \in Nat
         /\ cur_pos + Least(GhostOffsets) <= Len(buf)
<1>1. /\ cur_pos \in Nat /\ Len(buf) \in Nat
  BY LenProperties DEF TypeOK
<1>2. GhostOffsets \subseteq Nat
  BY <1>1 DEF GhostOffsets, Lesser
<1>3. Least(GhostOffsets) \in GhostOffsets
  BY <1>2, LeastInSet
<1> QED BY <1>1, <1>3 DEF GhostOffsets, Lesser

\* A packet that is whole ends inside the buffer.
LEMMA WholePktInBuffer ==
  ASSUME TypeOK, WholePkt
  PROVE  cur_pos + usb_frm_len \in Nat /\ cur_pos + usb_frm_len <= Len(buf)
BY ReadInBuffer, LenProperties DEF TypeOK, WholePkt, RealHdr

-----------------------------------------------------------------------------
(* Sequences of callbacks.                                                 *)

\* A callback allowed after the last one keeps the sequence grammatical.
LEMMA AppendGrammar ==
  ASSUME NEW evs \in Seq(Events), NEW e \in Events, Grammatical(evs),
         evs = <<>> => e.ev = "start",
         evs # <<>> => <<evs[Len(evs)].ev, e.ev>> \in Follows
  PROVE  /\ Append(evs, e) \in Seq(Events)
         /\ Grammatical(Append(evs, e))
         /\ Append(evs, e) # <<>>
         /\ Append(evs, e)[Len(Append(evs, e))] = e
<1>1. /\ Append(evs, e) \in Seq(Events)
      /\ Len(evs) \in Nat
      /\ Len(Append(evs, e)) = Len(evs) + 1
      /\ \A i \in 1 .. Len(evs) : Append(evs, e)[i] = evs[i]
      /\ Append(evs, e)[Len(evs) + 1] = e
  BY AppendProperties, LenProperties
<1>2. Append(evs, e) # <<>>
  BY <1>1, EmptySeq
<1>3. Append(evs, e)[1].ev = "start"
  <2>1. CASE evs = <<>>
    BY <2>1, <1>1, EmptySeq
  <2>2. CASE evs # <<>>
    <3>1. Len(evs) >= 1
      BY <2>2, EmptySeq
    <3> QED BY <3>1, <2>2, <1>1 DEF Grammatical
  <2> QED BY <2>1, <2>2
<1>4. ASSUME NEW i \in 1 .. Len(Append(evs, e)) - 1
      PROVE  <<Append(evs, e)[i].ev, Append(evs, e)[i + 1].ev>> \in Follows
  <2>0. i < Len(evs) \/ i = Len(evs)
    <3>1. Len(evs) \in Nat /\ i \in 1 .. Len(evs)
      BY <1>1
    <3> QED BY <3>1
  <2>1. CASE i < Len(evs)
    <3>1. i \in 1 .. Len(evs) - 1 /\ i \in 1 .. Len(evs) /\ i + 1 \in 1 .. Len(evs)
      BY <2>1, <1>1
    <3>2. <<evs[i].ev, evs[i + 1].ev>> \in Follows
      BY <3>1 DEF Grammatical
    <3> QED BY <1>1, <3>1, <3>2
  <2>2. CASE i = Len(evs)
    <3>1. Len(evs) >= 1
      BY <2>2, <1>1
    <3>2. evs # <<>>
      BY <3>1, EmptySeq
    <3> QED BY <1>1, <2>2, <3>1, <3>2
  <2> QED BY <2>0, <2>1, <2>2
<1> QED BY <1>1, <1>2, <1>3, <1>4 DEF Grammatical

-----------------------------------------------------------------------------
(***************************************************************************)
(* The inductive invariant.  Beside the properties it says which packet    *)
(* the "fragment" step is at, and ties the last callback to the decoder's  *)
(* flags: that is what makes the next callback the right one.              *)
(***************************************************************************)
AtFragment ==
    pc = "fragment" => /\ building_frame
                       /\ cur_pos + DATA_OFFSET <= Len(buf)
                       /\ PlLen(cur_pos) \in Nat
                       /\ PlLen(cur_pos) >= FRAG_HDR_LEN
                       /\ Flags(cur_pos) \in Nat

LastEvent == events[Len(events)].ev

LastCallback ==
    /\ events = <<>> <=> ~building_frame
    /\ building_frame /\ ~eof_reached => LastEvent \in {"start", "fragment"}
    /\ building_frame /\ eof_reached  => LastEvent = "complete"

IInv == /\ TypeOK
        /\ CursorInBuffer
        /\ ResidualBounded
        /\ EventGrammar
        /\ AtFragment
        /\ LastCallback

\* The invariant holds at the start.
LEMMA InitIInv == Init => IInv
<1> SUFFICES ASSUME Init PROVE IInv
  OBVIOUS
<1>1. TypeOK
  <2>1. stream \in Seq(Nat) /\ Len(stream) \in Nat
    BY LenProperties DEF Init
  <2>2. <<>> \in Seq(Nat) /\ <<>> \in Seq(Events)
    BY EmptySeq
  <2>3. sent \in 0 .. Len(stream)
    BY <2>1 DEF Init
  <2>4. stream \in Seq(Nat) /\ buf \in Seq(Nat) /\ events \in Seq(Events)
    BY <2>1, <2>2 DEF Init
  <2>5. /\ cur_pos \in Nat /\ building_frame \in BOOLEAN /\ frame_id \in Nat
        /\ found_soi \in BOOLEAN /\ eof_reached \in BOOLEAN
        /\ pc \in {"idle", "loop", "fragment", "return"}
    BY DEF Init
  <2> QED BY <2>3, <2>4, <2>5 DEF TypeOK
<1>2. CursorInBuffer /\ ResidualBounded
  BY EmptySeq DEF Init, CursorInBuffer, ResidualBounded
<1>3. EventGrammar
  BY EmptySeq DEF Init, EventGrammar, Grammatical
<1>4. AtFragment /\ LastCallback
  BY DEF Init, AtFragment, LastCallback
<1> QED BY <1>1, <1>2, <1>3, <1>4 DEF IInv

\* A turn of the loop that only moves the cursor.
LEMMA AdvanceIInv ==
  ASSUME IInv, NEW n \in Nat, cur_pos + n <= Len(buf), Advance(n)
  PROVE  IInv'
<1>1. TypeOK'
  BY DEF IInv, Advance, TypeOK, decVars
<1>2. (CursorInBuffer /\ ResidualBounded /\ AtFragment)'
  BY DEF IInv, Advance, CursorInBuffer, ResidualBounded, AtFragment, TypeOK
<1>3. (EventGrammar /\ LastCallback)'
  BY DEF IInv, Advance, EventGrammar, LastCallback, LastEvent, decVars
<1> QED BY <1>1, <1>2, <1>3 DEF IInv

\* A chunk put behind what is in the buffer disturbs nothing before the cursor.
LEMMA DeliverIInv == IInv /\ Deliver => IInv'
<1> SUFFICES ASSUME IInv, Deliver PROVE IInv'
  OBVIOUS
<1>1. PICK n \in 1 .. Lesser(Len(stream) - sent, MaxChunk) :
         /\ buf' = buf \o SubSeq(stream, sent + 1, sent + n)
         /\ sent' = sent + n
  BY DEF Deliver
<1>2. /\ stream \in Seq(Nat) /\ Len(stream) \in Nat
      /\ sent \in 0 .. Len(stream)
      /\ buf \in Seq(Nat)
      /\ n \in Nat /\ sent + n <= Len(stream)
  BY <1>1, LenProperties DEF IInv, TypeOK, Lesser
<1>3. SubSeq(stream, sent + 1, sent + n) \in Seq(Nat)
  <2>1. \A i \in sent + 1 .. sent + n : stream[i] \in Nat
    BY <1>2, ElementOfSeq
  <2> QED BY <1>2, <2>1, SubSeqProperties
<1>4. buf' \in Seq(Nat) /\ Len(buf') \in Nat
  BY <1>1, <1>2, <1>3, ConcatProperties, LenProperties
<1>5. TypeOK'
  BY <1>1, <1>2, <1>4, SMTT(60) DEF IInv, TypeOK, Deliver, decVars
<1>6. (CursorInBuffer /\ ResidualBounded /\ AtFragment)'
  BY <1>4 DEF Deliver, CursorInBuffer, ResidualBounded, AtFragment
<1>7. (EventGrammar /\ LastCallback)'
  BY DEF IInv, Deliver, EventGrammar, LastCallback, LastEvent, decVars
<1> QED BY <1>5, <1>6, <1>7 DEF IInv

\* Dropping what was consumed leaves less than a packet.
LEMMA KeepResidualIInv == IInv /\ KeepResidual => IInv'
<1> SUFFICES ASSUME IInv, KeepResidual PROVE IInv'
  OBVIOUS
<1>1. /\ buf \in Seq(Nat) /\ Len(buf) \in Nat
      /\ cur_pos \in Nat /\ cur_pos <= Len(buf)
  BY LenProperties DEF IInv, TypeOK, CursorInBuffer
<1>2. /\ buf' \in Seq(Nat)
      /\ Len(buf') = Len(buf) - cur_pos
  <2>1. \A i \in cur_pos + 1 .. Len(buf) : buf[i] \in Nat
    BY <1>1, ElementOfSeq
  <2> QED BY <1>1, <2>1, SubSeqProperties DEF KeepResidual
<1>3. TypeOK'
  BY <1>2 DEF IInv, TypeOK, KeepResidual, decVars
<1>4. (CursorInBuffer /\ ResidualBounded /\ AtFragment)'
  BY <1>1, <1>2 DEF IInv, KeepResidual, CursorInBuffer, ResidualBounded, AtFragment
<1>5. (EventGrammar /\ LastCallback)'
  BY DEF IInv, KeepResidual, EventGrammar, LastCallback, LastEvent, decVars
<1> QED BY <1>3, <1>4, <1>5 DEF IInv

\* The two ways out of the loop: what is left is less than a packet.
LEMMA ReturnIInv == IInv /\ (LoopExit \/ NeedData) => IInv'
<1> SUFFICES ASSUME IInv, LoopExit \/ NeedData PROVE IInv'
  OBVIOUS
<1>1. /\ UNCHANGED <<stream, sent, buf, cur_pos, decVars, events>>
      /\ pc' = "return"
  BY DEF LoopExit, NeedData
<1>2. TypeOK'
  BY <1>1 DEF IInv, TypeOK, decVars
<1>3. (CursorInBuffer /\ AtFragment)'
  BY <1>1 DEF IInv, CursorInBuffer, AtFragment
<1>4. ResidualBounded'
  <2>1. Len(buf) \in Nat /\ cur_pos \in Nat
    BY LenProperties DEF IInv, TypeOK
  <2>2. CASE LoopExit
    BY <1>1, <2>1, <2>2, LengthTypes DEF LoopExit, ResidualBounded
  <2>3. CASE NeedData
    <3>1. TypeOK /\ InLoop
      BY <2>3 DEF IInv, NeedData, RealHdr
    <3>2. PlLen(cur_pos) \in Nat
      BY <3>1, ReadInBuffer
    <3> QED BY <1>1, <2>1, <2>3, <3>2 DEF NeedData, ResidualBounded, usb_frm_len
  <2> QED BY <2>2, <2>3
<1>5. (EventGrammar /\ LastCallback)'
  BY <1>1 DEF IInv, EventGrammar, LastCallback, LastEvent, decVars
<1> QED BY <1>2, <1>3, <1>4, <1>5 DEF IInv

\* A frame boundary: the frame being built is closed if it is open, and the
\* callbacks stay grammatical.
LEMMA BoundaryIInv == IInv /\ Boundary => IInv'
<1> SUFFICES ASSUME IInv, Boundary PROVE IInv'
  OBVIOUS
<1>1. /\ TypeOK /\ InLoop /\ WholePkt
      /\ UNCHANGED <<stream, sent, buf, cur_pos>>
      /\ pc' = "fragment"
  BY DEF IInv, Boundary, Accepted, WholePkt, RealHdr
<1>2. /\ FrameId(cur_pos) \in Nat /\ Flags(cur_pos) \in Nat
      /\ PlLen(cur_pos) \in Nat
      /\ cur_pos + usb_frm_len <= Len(buf)
      /\ cur_pos + DATA_OFFSET <= Len(buf)
      /\ Len(buf) \in Nat /\ cur_pos \in Nat
  BY <1>1, ReadInBuffer, WholePktInBuffer, LengthTypes, LenProperties
     DEF TypeOK, InLoop
<1>3. events \in Seq(Events) /\ Grammatical(events)
  BY DEF IInv, TypeOK, EventGrammar
<1>4. (CursorInBuffer /\ ResidualBounded)'
  BY <1>1, <1>2 DEF IInv, CursorInBuffer, ResidualBounded, usb_frm_len, PlLen
<1>5. CASE ~NewFrame /\ UNCHANGED <<decVars, events>>
  <2>1. (TypeOK /\ EventGrammar /\ LastCallback)'
    BY <1>1, <1>5 DEF IInv, TypeOK, EventGrammar, LastCallback, LastEvent, decVars
  <2>2. AtFragment'
    BY <1>1, <1>2, <1>5 DEF Boundary, Accepted, AtFragment, NewFrame, PlLen,
                             Flags, decVars
  <2> QED BY <1>4, <2>1, <2>2 DEF IInv
<1>6. CASE NewFrame /\ ~UNCHANGED <<decVars, events>>
  <2> DEFINE incomplete == Event("incomplete", <<>>)
             start == Event("start", <<FrameId(cur_pos)>>)
             closed == IF building_frame /\ ~eof_reached
                         THEN Append(events, incomplete) ELSE events
  <2>1. /\ events' = Append(closed, start)
        /\ frame_id' = FrameId(cur_pos)
        /\ building_frame' = TRUE
        /\ found_soi' = FALSE
        /\ eof_reached' = FALSE
    BY <1>6 DEF Boundary
  <2>2. incomplete \in Events /\ start \in Events
    BY <1>2, EmptySeq DEF Event, Events, Kinds
  <2>3. incomplete.ev = "incomplete" /\ start.ev = "start"
    BY DEF Event
  <2>4. /\ closed \in Seq(Events)
        /\ Grammatical(closed)
        /\ closed # <<>> => closed[Len(closed)].ev \in {"complete", "incomplete"}
    <3>1. CASE building_frame /\ ~eof_reached
      <4>1. events # <<>> /\ events[Len(events)].ev \in {"start", "fragment"}
        BY <3>1 DEF IInv, LastCallback, LastEvent
      <4>2. <<events[Len(events)].ev, incomplete.ev>> \in Follows
        BY <4>1, <2>3 DEF Follows
      <4>3. closed = Append(events, incomplete)
        BY <3>1
      <4> HIDE DEF closed, incomplete
      <4> QED BY <1>3, <2>2, <2>3, <4>1, <4>2, <4>3, AppendGrammar
    <3>2. CASE ~(building_frame /\ ~eof_reached)
      <4>1. events # <<>> => events[Len(events)].ev = "complete"
        BY <3>2 DEF IInv, LastCallback, LastEvent, TypeOK
      <4> QED BY <1>3, <3>2, <4>1
    <3> QED BY <3>1, <3>2
  <2>5. closed # <<>> => <<closed[Len(closed)].ev, start.ev>> \in Follows
    BY <2>3, <2>4 DEF Follows
  <2>6. /\ events' \in Seq(Events)
        /\ Grammatical(events')
        /\ events' # <<>>
        /\ events'[Len(events')].ev = "start"
    <3> HIDE DEF closed, start
    <3> QED BY <2>1, <2>2, <2>3, <2>4, <2>5, AppendGrammar
  <2>7. TypeOK'
    BY <1>1, <1>2, <2>1, <2>6 DEF TypeOK
  <2>8. (EventGrammar /\ LastCallback)'
    BY <2>1, <2>6 DEF EventGrammar, LastCallback, LastEvent
  <2>9. AtFragment'
    BY <1>1, <1>2, <2>1 DEF Boundary, Accepted, AtFragment, PlLen, Flags
  <2> QED BY <1>4, <2>7, <2>8, <2>9 DEF IInv
<1> QED BY <1>5, <1>6 DEF Boundary

-----------------------------------------------------------------------------
(* The data of a fragment.                                                 *)

\* A marker that is found lies inside the fragment.
LEMMA MarkerOffsets ==
  ASSUME NEW d \in Seq(Nat), NEW m, NEW lim \in Nat, MarkerAt(d, m, lim) # {}
  PROVE  /\ Least(MarkerAt(d, m, lim)) \in Nat
         /\ Least(MarkerAt(d, m, lim)) + 2 <= Len(d)
<1>1. Len(d) \in Nat
  BY LenProperties
<1>2. MarkerAt(d, m, lim) \subseteq 0 .. Lesser(Len(d), lim) - 2
  BY DEF MarkerAt
<1>3. MarkerAt(d, m, lim) \subseteq Nat
  BY <1>1, <1>2 DEF Lesser
<1>4. Least(MarkerAt(d, m, lim)) \in MarkerAt(d, m, lim)
  BY <1>3, LeastInSet
<1> QED BY <1>1, <1>2, <1>4 DEF Lesser

\* A part of a sequence of bytes is one.
LEMMA SubSeqType ==
  ASSUME NEW d \in Seq(Nat), NEW a \in Nat, NEW b \in Nat, a >= 1, b <= Len(d)
  PROVE  SubSeq(d, a, b) \in Seq(Nat)
<1>1. \A i \in a .. b : d[i] \in Nat
  BY ElementOfSeq, LenProperties
<1> QED BY <1>1, SubSeqProperties

\* The fragment handed to the callback is a sequence of bytes.
LEMMA FragmentType ==
  ASSUME IInv, pc = "fragment", ~NoImage
  PROVE  imgFragment \in Seq(Nat)
<1>1. /\ buf \in Seq(Nat) /\ Len(buf) \in Nat
      /\ cur_pos \in Nat /\ usb_frm_len \in Nat
      /\ cur_pos + usb_frm_len <= Len(buf)
  BY LenProperties, SMTT(60) DEF IInv, TypeOK, CursorInBuffer, AtFragment, usb_frm_len
<1>2. video_data \in Seq(Nat)
  <2>1. /\ cur_pos + DATA_OFFSET + 1 \in Nat /\ cur_pos + DATA_OFFSET + 1 >= 1
        /\ cur_pos + usb_frm_len \in Nat
    BY <1>1, LengthTypes
  <2> QED BY <1>1, <2>1, SubSeqType DEF video_data
<1>3. image \in Seq(Nat)
  <2>1. CASE found_soi
    BY <2>1, <1>2 DEF image
  <2>2. CASE ~found_soi
    <3>1. soiAt # {}
      BY <2>2 DEF NoImage
    <3>2. Least(soiAt) \in Nat
      BY <3>1, <1>2, MarkerOffsets DEF soiAt
    <3>3. SubSeq(video_data, Least(soiAt) + 1, Len(video_data)) \in Seq(Nat)
      BY <1>2, <3>2, SubSeqType, LenProperties
    <3> QED BY <2>2, <3>3 DEF image
  <2> QED BY <2>1, <2>2
<1>4. CASE eoiAt = {}
  BY <1>3, <1>4 DEF imgFragment
<1>5. CASE eoiAt # {}
  <2>1. Len(image) \in Nat
    BY <1>3, LenProperties
  <2>2. Least(eoiAt) \in Nat /\ Least(eoiAt) + 2 <= Len(image)
    BY <1>3, <1>5, <2>1, MarkerOffsets DEF eoiAt
  <2>3. SubSeq(image, 1, Least(eoiAt) + 2) \in Seq(Nat)
    BY <1>3, <2>2, SubSeqType
  <2> QED BY <1>5, <2>3 DEF imgFragment
<1> QED BY <1>4, <1>5

\* A fragment is handed over only while a frame is open, and closes it at its end.
LEMMA FragmentIInv == IInv /\ Fragment => IInv'
<1> SUFFICES ASSUME IInv, Fragment PROVE IInv'
  OBVIOUS
<1> DEFINE frag == Event("fragment", imgFragment)
           complete == Event("complete", <<>>)
<1>1. /\ pc = "fragment" /\ ~NoImage
      /\ building_frame /\ ~eof_reached
      /\ events \in Seq(Events) /\ Grammatical(events)
      /\ events # <<>> /\ events[Len(events)].ev \in {"start", "fragment"}
  BY DEF IInv, Fragment, AtFragment, NoImage, TypeOK, EventGrammar, LastCallback,
         LastEvent
<1>2. /\ frag \in Events /\ frag.ev = "fragment"
      /\ complete \in Events /\ complete.ev = "complete"
  BY <1>1, FragmentType, EmptySeq DEF Event, Events, Kinds
<1>3. <<events[Len(events)].ev, frag.ev>> \in Follows
  BY <1>1, <1>2 DEF Follows
<1>4. /\ withFragment \in Seq(Events)
      /\ Grammatical(withFragment)
      /\ withFragment # <<>>
      /\ withFragment[Len(withFragment)] = frag
  <2>1. withFragment = Append(events, frag)
    BY DEF withFragment
  <2> HIDE DEF frag
  <2> QED BY <1>1, <1>2, <1>3, <2>1, AppendGrammar
<1>5. /\ events' \in Seq(Events)
      /\ Grammatical(events')
      /\ events' # <<>>
      /\ ~eof_reached' => events'[Len(events')].ev = "fragment"
      /\ eof_reached' => events'[Len(events')].ev = "complete"
      /\ eof_reached' \in BOOLEAN
  <2>1. CASE eoiAt = {}
    BY <2>1, <1>2, <1>4 DEF Fragment
  <2>2. CASE eoiAt # {}
    <3>1. <<withFragment[Len(withFragment)].ev, complete.ev>> \in Follows
      BY <1>2, <1>4 DEF Follows
    <3>2. events' = Append(withFragment, complete) /\ eof_reached' = TRUE
      BY <2>2 DEF Fragment
    <3> HIDE DEF complete
    <3> QED BY <1>2, <1>4, <3>1, <3>2, AppendGrammar
  <2> QED BY <2>1, <2>2
<1>6. /\ cur_pos' \in Nat /\ cur_pos' <= Len(buf)
      /\ UNCHANGED <<stream, sent, buf, building_frame, frame_id>>
      /\ found_soi' = TRUE /\ pc' = "loop"
  <2>1. /\ buf \in Seq(Nat) /\ cur_pos \in Nat
        /\ usb_frm_len \in Nat
        /\ cur_pos + usb_frm_len <= Len(buf)
    BY <1>1, SMTT(60) DEF IInv, TypeOK, CursorInBuffer, AtFragment, usb_frm_len
  <2>2. cur_pos' = cur_pos + usb_frm_len
    BY DEF Fragment
  <2>3. cur_pos' \in Nat /\ cur_pos' <= Len(buf)
    BY <2>1, <2>2
  <2> QED BY <2>3 DEF Fragment
<1>7. TypeOK'
  BY <1>5, <1>6 DEF IInv, TypeOK
<1>8. (CursorInBuffer /\ ResidualBounded /\ AtFragment)'
  BY <1>6 DEF CursorInBuffer, ResidualBounded, AtFragment
<1>9. (EventGrammar /\ LastCallback)'
  BY <1>1, <1>5, <1>6 DEF EventGrammar, LastCallback, LastEvent
<1> QED BY <1>7, <1>8, <1>9 DEF IInv

\* Every step keeps the invariant.
LEMMA NextIInv == IInv /\ [Next]_vars => IInv'
<1> SUFFICES ASSUME IInv, [Next]_vars PROVE IInv'
  OBVIOUS
<1>0. /\ TypeOK /\ Len(buf) \in Nat /\ cur_pos \in Nat
  BY LenProperties DEF IInv, TypeOK
<1>1. CASE Deliver
  BY <1>1, DeliverIInv
<1>2. CASE KeepResidual
  BY <1>2, KeepResidualIInv
<1>3. CASE LoopExit \/ NeedData
  BY <1>3, ReturnIInv
<1>4. CASE SeekByte \/ RejectLength
  <2>1. InLoop /\ Advance(1)
    BY <1>4 DEF SeekByte, RejectLength, RealHdr
  <2>2. cur_pos + 1 <= Len(buf)
    BY <1>0, <2>1, LengthTypes DEF InLoop
  <2> QED BY <2>1, <2>2, AdvanceIInv
<1>5. CASE SkipGhost
  BY <1>0, <1>5, GhostInBuffer, AdvanceIInv DEF SkipGhost
<1>6. CASE SkipShort \/ SkipDevice
  <2>1. WholePkt /\ InLoop /\ Advance(usb_frm_len)
    BY <1>6 DEF SkipShort, SkipDevice, WholePkt, RealHdr
  <2>2. usb_frm_len \in Nat /\ cur_pos + usb_frm_len <= Len(buf)
    BY <1>0, <2>1, ReadInBuffer, WholePktInBuffer
  <2> QED BY <2>1, <2>2, AdvanceIInv
<1>7. CASE Boundary
  BY <1>7, BoundaryIInv
<1>8. CASE SkipFragment
  <2>1. usb_frm_len \in Nat /\ cur_pos + usb_frm_len <= Len(buf)
    BY <1>8, <1>0 DEF SkipFragment, IInv, CursorInBuffer, AtFragment, usb_frm_len
  <2> QED BY <1>8, <2>1, AdvanceIInv DEF SkipFragment
<1>9. CASE Fragment
  BY <1>9, FragmentIInv
<1>10. CASE UNCHANGED vars
  BY <1>10 DEF IInv, TypeOK, CursorInBuffer, ResidualBounded, EventGrammar,
               AtFragment, LastCallback, LastEvent, vars, decVars, usb_frm_len,
               PlLen, Flags
<1> QED
  BY <1>1, <1>2, <1>3, <1>4, <1>5, <1>6, <1>7, <1>8, <1>9, <1>10
     DEF Next, Decode, Finished

\* The invariant always holds.
LEMMA SpecIInv == Spec => []IInv
BY InitIInv, NextIInv, PTL DEF Spec

-----------------------------------------------------------------------------
\* Every variable keeps its type.
THEOREM TypeCorrect == Spec => []TypeOK
BY SpecIInv, PTL DEF IInv

\* Whatever bytes the stream holds and however it is cut, the cursor never
\* passes the end of the buffer, so len - cur_pos never wraps and no packet is
\* read past the end.
THEOREM CursorSafe == Spec => []CursorInBuffer
BY SpecIInv, PTL DEF IInv

\* Whatever the stream holds, less than one packet waits for the next chunk.
THEOREM ResidualSafe == Spec => []ResidualBounded
BY SpecIInv, PTL DEF IInv

\* Whatever the stream holds, each start is closed by exactly one complete or
\* incomplete before the next, and fragments lie between.
THEOREM CallbacksGrammatical == Spec => []EventGrammar
BY SpecIInv, PTL DEF IInv

-----------------------------------------------------------------------------
(***************************************************************************)
(* The images.  A fragment is a stretch of what has arrived, from behind   *)
(* the header of its packet; the first of a frame is cut before the start  *)
(* of image, the last behind its end.                                      *)
(***************************************************************************)
\* s is the stretch of d behind the first n elements.
IsPiece(s, d, n) ==
    n + Len(s) <= Len(d) /\ \A k \in 1 .. Len(s) : s[k] = d[n + k]

LEMMA SubSeqPiece ==
  ASSUME NEW d \in Seq(Nat), NEW m \in Nat, NEW n \in Nat, m <= n, n <= Len(d)
  PROVE  /\ SubSeq(d, m + 1, n) \in Seq(Nat) /\ Len(SubSeq(d, m + 1, n)) = n - m
         /\ IsPiece(SubSeq(d, m + 1, n), d, m)
<1> DEFINE k == m + 1
           s == SubSeq(d, k, n)
<1>1. /\ k \in Int /\ n \in Int /\ \A i \in k .. n : d[i] \in Nat
      /\ n - k + 1 = n - m /\ (IF k <= n THEN n - k + 1 ELSE 0) = n - m
      /\ \A i \in 1 .. n - m : k + i - 1 = m + i
  BY ElementOfSeq, LenProperties
<1>2. n - m \in Nat /\ m + (n - m) = n /\ m + (n - m) <= Len(d)
  BY LenProperties
<1> HIDE DEF k
<1>3. /\ s \in Seq(Nat)
      /\ Len(s) = (IF k <= n THEN n - k + 1 ELSE 0)
      /\ \A i \in 1 .. n - k + 1 : s[i] = d[k + i - 1]
  BY <1>1, SubSeqProperties
<1> HIDE DEF s
<1>4. Len(s) = n - m
  BY <1>1, <1>3, Zenon
<1>5. \A i \in 1 .. n - m : s[i] = d[m + i]
  BY <1>1, <1>3, Zenon
<1>6. IsPiece(s, d, m)
  BY <1>2, <1>4, <1>5, Zenon DEF IsPiece
<1> QED BY <1>3, <1>4, <1>6, Zenon DEF s, k

LEMMA PrefixPiece ==
  ASSUME NEW d \in Seq(Nat), NEW n \in Nat, n <= Len(d)
  PROVE  /\ SubSeq(d, 1, n) \in Seq(Nat) /\ Len(SubSeq(d, 1, n)) = n
         /\ IsPiece(SubSeq(d, 1, n), d, 0)
<1>1. 0 \in Nat /\ 0 <= n /\ 0 + 1 = 1 /\ n - 0 = n
  OBVIOUS
<1>2. /\ SubSeq(d, 0 + 1, n) \in Seq(Nat) /\ Len(SubSeq(d, 0 + 1, n)) = n - 0
      /\ IsPiece(SubSeq(d, 0 + 1, n), d, 0)
  BY <1>1, SubSeqPiece, Zenon
<1> QED BY <1>1, <1>2, Zenon

LEMMA PieceOfPiece ==
  ASSUME NEW r \in Seq(Nat), NEW s \in Seq(Nat), NEW d \in Seq(Nat), NEW m \in Nat, NEW n \in Nat,
         IsPiece(r, s, m), IsPiece(s, d, n)
  PROVE  IsPiece(r, d, n + m)
<1>1. Len(r) \in Nat /\ Len(s) \in Nat /\ Len(d) \in Nat /\ m + Len(r) <= Len(s)
      /\ n + Len(s) <= Len(d)
  BY LenProperties DEF IsPiece
<1>2. ASSUME NEW k \in 1 .. Len(r) PROVE r[k] = d[n + m + k]
  <2>1. m + k \in 1 .. Len(s) /\ n + (m + k) = n + m + k
    BY <1>1
  <2>2. s[m + k] = d[n + (m + k)]
    BY <2>1, Zenon DEF IsPiece
  <2>3. r[k] = s[m + k]
    BY Zenon DEF IsPiece
  <2> QED BY <2>1, <2>2, <2>3, Zenon
<1>3. n + m + Len(r) <= Len(d)
  BY <1>1
<1> QED BY <1>2, <1>3, Zenon DEF IsPiece

\* The first marker found is where it is said to be, and nothing before it is one.
LEMMA FirstMarker ==
  ASSUME NEW d \in Seq(Nat), NEW m, NEW lim \in Nat, MarkerAt(d, m, lim) # {}
  PROVE  LET a == Least(MarkerAt(d, m, lim))
         IN  /\ a \in Nat /\ a + 2 <= Len(d) /\ d[a + 1] = FF /\ d[a + 2] = m
             /\ \A i \in MarkerAt(d, m, lim) : a <= i
<1> DEFINE S == MarkerAt(d, m, lim)
<1>1. Least(S) \in Nat /\ Least(S) + 2 <= Len(d)
  BY MarkerOffsets
<1>2. S \subseteq Nat
  BY LenProperties DEF MarkerAt, Lesser
<1>3. Least(S) \in S /\ \A i \in S : Least(S) <= i
  BY <1>2, LeastIsLeast
<1>4. d[Least(S) + 1] = FF /\ d[Least(S) + 2] = m
  BY <1>3 DEF MarkerAt
<1> QED BY <1>1, <1>3, <1>4

\* What the callback is given: a stretch of the packet's data; when the image begins with
\* it, from the SOI marker; and up to the first EOI marker, if it holds one.
LEMMA FragmentPiece ==
  ASSUME IInv, pc = "fragment", ~NoImage
  PROVE  /\ imgFragment \in Seq(Nat) /\ buf \in Seq(Nat) /\ usb_frm_len \in Nat
         /\ \E n \in Nat : /\ IsPiece(imgFragment, buf, n)
                           /\ cur_pos <= n /\ n + Len(imgFragment) <= cur_pos + usb_frm_len
         /\ FragmentOk(imgFragment, ~found_soi, eoiAt # {})
<1>1. /\ buf \in Seq(Nat) /\ Len(buf) \in Nat
      /\ cur_pos \in Nat /\ usb_frm_len \in Nat /\ DATA_OFFSET \in Nat
      /\ cur_pos + usb_frm_len <= Len(buf)
      /\ DATA_OFFSET <= usb_frm_len
  BY LengthTypes, LenProperties, SMTT(60) DEF IInv, TypeOK, CursorInBuffer, AtFragment, usb_frm_len
<1>2. /\ video_data \in Seq(Nat) /\ Len(video_data) = usb_frm_len - DATA_OFFSET
      /\ IsPiece(video_data, buf, cur_pos + DATA_OFFSET)
  <2>1. /\ cur_pos + DATA_OFFSET \in Nat /\ cur_pos + usb_frm_len \in Nat
        /\ cur_pos + DATA_OFFSET <= cur_pos + usb_frm_len
        /\ (cur_pos + usb_frm_len) - (cur_pos + DATA_OFFSET) = usb_frm_len - DATA_OFFSET
    BY <1>1
  <2>2. video_data = SubSeq(buf, (cur_pos + DATA_OFFSET) + 1, cur_pos + usb_frm_len)
    BY DEF video_data
  <2> HIDE DEF video_data
  <2> QED BY <1>1, <2>1, <2>2, SubSeqPiece, ZenonT(60)
<1>3. PICK a \in Nat : /\ image \in Seq(Nat) /\ IsPiece(image, video_data, a)
                       /\ ~found_soi => Len(image) >= 2 /\ image[1] = FF /\ image[2] = SOI
  <2>1. CASE found_soi
    <3>1. image = video_data /\ IsPiece(video_data, video_data, 0)
      BY <1>1, <1>2, <2>1 DEF image, IsPiece
    <3> QED BY <1>2, <2>1, <3>1
  <2>2. CASE ~found_soi
    <3> DEFINE a == Least(soiAt)
    <3>1. soiAt # {}
      BY <2>2 DEF NoImage
    <3>2. /\ a \in Nat /\ a + 2 <= Len(video_data)
          /\ video_data[a + 1] = FF /\ video_data[a + 2] = SOI
      BY <1>2, <3>1, FirstMarker DEF soiAt
    <3>3. image = SubSeq(video_data, a + 1, Len(video_data))
      BY <2>2 DEF image
    <3> HIDE DEF a
    <3>4. Len(video_data) \in Nat
      BY <1>2, LenProperties
    <3>5. image \in Seq(Nat) /\ IsPiece(image, video_data, a)
          /\ Len(image) = Len(video_data) - a
      <4>1. a <= Len(video_data) /\ Len(video_data) <= Len(video_data)
        BY <3>2, <3>4
      <4> QED BY <1>2, <3>2, <3>3, <3>4, <4>1, SubSeqPiece, Zenon
    <3>6. Len(image) >= 2 /\ image[1] = video_data[a + 1] /\ image[2] = video_data[a + 2]
      BY <3>2, <3>4, <3>5 DEF IsPiece
    <3> QED BY <3>2, <3>5, <3>6
  <2> QED BY <2>1, <2>2
<1>4. Len(image) \in Nat
  BY <1>3, LenProperties
<1>5. /\ imgFragment \in Seq(Nat) /\ IsPiece(imgFragment, image, 0)
      /\ FragmentOk(imgFragment, ~found_soi, eoiAt # {})
  <2>1. CASE eoiAt = {}
    <3>1. imgFragment = image /\ IsPiece(image, image, 0)
      BY <1>4, <2>1 DEF imgFragment, IsPiece
    <3>2. ~found_soi => 0 \in MarkerAt(image, SOI, Len(image))
      BY <1>3, <1>4 DEF MarkerAt, Lesser
    <3>3. MarkerAt(image, EOI, Len(image)) = {}
      BY <2>1 DEF eoiAt
    <3> QED BY <1>3, <2>1, <3>1, <3>2, <3>3 DEF FragmentOk
  <2>2. CASE eoiAt # {}
    <3> DEFINE e == Least(eoiAt)
               s == imgFragment
    <3>1. /\ e \in Nat /\ e + 2 <= Len(image) /\ image[e + 1] = FF /\ image[e + 2] = EOI
          /\ \A i \in eoiAt : e <= i
      BY <1>3, <1>4, <2>2, FirstMarker DEF eoiAt
    <3>2. s = SubSeq(image, 1, e + 2)
      BY <2>2, Zenon DEF imgFragment
    <3> HIDE DEF e, s
    <3>3. s \in Seq(Nat) /\ IsPiece(s, image, 0) /\ Len(s) = e + 2
      <4>1. e + 2 \in Nat
        BY <3>1
      <4>2. image \in Seq(Nat) /\ e + 2 <= Len(image)
        BY <1>3, <3>1
      <4> HIDE DEF image
      <4> QED BY <3>2, <4>1, <4>2, PrefixPiece, Zenon
    <3>4. \A k \in 1 .. e + 2 : s[k] = image[k]
      BY <3>1, <3>3 DEF IsPiece
    <3>5. ~found_soi => 0 \in MarkerAt(s, SOI, Len(s))
      BY <1>3, <3>1, <3>3, <3>4, SMTT(60) DEF MarkerAt, Lesser
    <3>6. MarkerAt(s, EOI, Len(s)) = {Len(s) - 2}
      <4>1. e \in MarkerAt(s, EOI, Len(s))
        BY <3>1, <3>3, <3>4 DEF MarkerAt, Lesser
      <4>2. ASSUME NEW i \in MarkerAt(s, EOI, Len(s)) PROVE i = e
        <5>1. i \in 0 .. e /\ s[i + 1] = FF /\ s[i + 2] = EOI
          BY <3>1, <3>3 DEF MarkerAt, Lesser
        <5>2. image[i + 1] = FF /\ image[i + 2] = EOI
          <6>1. i + 1 \in 1 .. e + 2 /\ i + 2 \in 1 .. e + 2
            BY <3>1, <5>1
          <6> QED BY <3>4, <5>1, <6>1, Zenon
        <5>3. i \in eoiAt
          BY <1>4, <3>1, <5>1, <5>2 DEF eoiAt, MarkerAt, Lesser
        <5> QED BY <3>1, <5>1, <5>3
      <4>3. e = Len(s) - 2
        BY <3>1, <3>3
      <4>4. MarkerAt(s, EOI, Len(s)) = {e}
        <5> DEFINE M == MarkerAt(s, EOI, Len(s))
        <5> HIDE DEF M
        <5>1. e \in M /\ \A i \in M : i = e
          BY <4>1, <4>2, Zenon DEF M
        <5>2. M = {e}
          BY <5>1
        <5> QED BY <5>2 DEF M
      <4> QED BY <4>3, <4>4, Zenon
    <3>7. FragmentOk(s, ~found_soi, eoiAt # {})
      BY <2>2, <3>5, <3>6 DEF FragmentOk
    <3> QED BY <3>3, <3>7 DEF s
  <2> QED BY <2>1, <2>2
<1>6. IsPiece(imgFragment, video_data, a) /\ IsPiece(imgFragment, buf, cur_pos + DATA_OFFSET + a)
  <2>0. 0 \in Nat
    OBVIOUS
  <2>1. IsPiece(imgFragment, video_data, a + 0)
    BY <1>2, <1>3, <1>5, <2>0, PieceOfPiece, Zenon
  <2>2. cur_pos + DATA_OFFSET \in Nat /\ a + 0 = a
    BY <1>1
  <2>3. IsPiece(imgFragment, video_data, a)
    BY <2>1, <2>2, Zenon
  <2> QED BY <1>1, <1>2, <1>5, <2>2, <2>3, PieceOfPiece, Zenon
<1>7. /\ cur_pos <= cur_pos + DATA_OFFSET + a
      /\ cur_pos + DATA_OFFSET + a + Len(imgFragment) <= cur_pos + usb_frm_len
      /\ cur_pos + DATA_OFFSET + a \in Nat
  BY <1>1, <1>2, <1>5, <1>6, LenProperties DEF IsPiece
<1> QED BY <1>1, <1>5, <1>6, <1>7

\* A fragment that is as it should be as a first one is so as any.
LEMMA FragmentOkElsewhere ==
  ASSUME NEW d, NEW p \in BOOLEAN, NEW q \in BOOLEAN, NEW p2 \in BOOLEAN, NEW q2 \in BOOLEAN,
         FragmentOk(d, p, q), p2 => p, q2 <=> q
  PROVE  FragmentOk(d, p2, q2)
BY Zenon DEF FragmentOk

\* A callback that neither completes a fragment nor is a fragment out of place.
LEMMA MarkedAppend ==
  ASSUME NEW evs \in Seq(Events), NEW e \in Events, Grammatical(evs), Marked(evs),
         evs # <<>> /\ evs[Len(evs)].ev = "fragment" => e.ev # "complete",
         e.ev = "fragment" =>
            evs # <<>> /\ FragmentOk(e.arg, evs[Len(evs)].ev = "start", FALSE)
  PROVE  Marked(Append(evs, e))
<1> DEFINE new == Append(evs, e)
<1>1. /\ Len(evs) \in Nat /\ Len(new) = Len(evs) + 1
      /\ \A i \in 1 .. Len(evs) : new[i] = evs[i]
      /\ new[Len(evs) + 1] = e
  BY AppendProperties, LenProperties
<1> HIDE DEF new
<1>2. SUFFICES ASSUME NEW i \in 1 .. Len(new), new[i].ev = "fragment"
               PROVE  FragmentOk(new[i].arg, new[i - 1].ev = "start",
                                 i < Len(new) /\ new[i + 1].ev = "complete")
  BY Zenon DEF Marked, new
<1>3. CASE i \in 1 .. Len(evs)
  <2>1. new[i] = evs[i] /\ evs[i].ev = "fragment"
    BY <1>1, <1>2, <1>3
  <2>2. i # 1
    <3>1. evs # <<>>
      BY <1>1, <1>3, EmptySeq
    <3>2. evs[1].ev = "start"
      BY <3>1 DEF Grammatical
    <3> QED BY <2>1, <3>2
  <2>3. i - 1 \in 1 .. Len(evs) /\ new[i - 1] = evs[i - 1]
    BY <1>1, <1>3, <2>2
  <2>4. FragmentOk(evs[i].arg, evs[i - 1].ev = "start",
                   i < Len(evs) /\ evs[i + 1].ev = "complete")
    BY <1>3, <2>1, Zenon DEF Marked
  <2>5. (i < Len(evs) /\ evs[i + 1].ev = "complete")
          <=> (i < Len(new) /\ new[i + 1].ev = "complete")
    <3>1. CASE i < Len(evs)
      <4>1. i < Len(new) /\ new[i + 1] = evs[i + 1]
        BY <1>1, <1>3, <3>1
      <4> QED BY <3>1, <4>1
    <3>2. CASE i = Len(evs)
      <4>1. evs # <<>> /\ evs[Len(evs)].ev = "fragment"
        BY <1>1, <1>3, <2>1, <3>2, EmptySeq
      <4>2. new[i + 1] = e /\ e.ev # "complete" /\ ~(i < Len(evs))
        BY <1>1, <3>2, <4>1
      <4> QED BY <4>2
    <3> QED BY <1>1, <1>3, <3>1, <3>2
  <2> QED BY <2>1, <2>3, <2>4, <2>5, FragmentOkElsewhere, Zenon
<1>4. CASE i = Len(evs) + 1
  <2>1. new[i] = e /\ e.ev = "fragment" /\ ~(i < Len(new))
    BY <1>1, <1>2, <1>4
  <2>2. evs # <<>> /\ Len(evs) >= 1
    BY <1>1, <2>1, EmptySeq
  <2>3. i - 1 = Len(evs) /\ new[i - 1] = evs[Len(evs)]
    BY <1>1, <1>4, <2>2
  <2>4. FragmentOk(e.arg, evs[Len(evs)].ev = "start", FALSE)
    BY <2>1
  <2> QED BY <2>1, <2>3, <2>4, FragmentOkElsewhere, Zenon
<1> QED BY <1>1, <1>2, <1>3, <1>4

\* The last fragment of an image, and the completion with it.
LEMMA MarkedAppendLast ==
  ASSUME NEW evs \in Seq(Events), NEW f \in Events, NEW c \in Events,
         Grammatical(evs), Marked(evs), evs # <<>>,
         f.ev = "fragment", c.ev = "complete",
         FragmentOk(f.arg, evs[Len(evs)].ev = "start", TRUE)
  PROVE  Marked(Append(Append(evs, f), c))
<1> DEFINE mid == Append(evs, f)
           new == Append(mid, c)
<1>1. /\ mid \in Seq(Events)
      /\ Len(evs) \in Nat /\ Len(mid) = Len(evs) + 1
      /\ \A i \in 1 .. Len(evs) : mid[i] = evs[i]
      /\ mid[Len(evs) + 1] = f
  BY AppendProperties, LenProperties
<1> HIDE DEF mid
<1>2. /\ Len(new) = Len(mid) + 1
      /\ \A i \in 1 .. Len(mid) : new[i] = mid[i]
      /\ new[Len(mid) + 1] = c
  BY <1>1, AppendProperties, LenProperties
<1> HIDE DEF new
<1>3. /\ Len(new) = Len(evs) + 2
      /\ \A i \in 1 .. Len(evs) : new[i] = evs[i]
      /\ new[Len(evs) + 1] = f /\ new[Len(evs) + 2] = c
  BY <1>1, <1>2
<1>4. SUFFICES ASSUME NEW i \in 1 .. Len(new), new[i].ev = "fragment"
               PROVE  FragmentOk(new[i].arg, new[i - 1].ev = "start",
                                 i < Len(new) /\ new[i + 1].ev = "complete")
  BY Zenon DEF Marked, new, mid
<1>5. Len(evs) >= 1
  BY <1>1, EmptySeq
<1>6. CASE i \in 1 .. Len(evs)
  <2>1. new[i] = evs[i] /\ evs[i].ev = "fragment"
    BY <1>3, <1>4, <1>6
  <2>2. i # 1
    <3>1. evs[1].ev = "start"
      BY DEF Grammatical
    <3> QED BY <2>1, <3>1
  <2>3. i - 1 \in 1 .. Len(evs) /\ new[i - 1] = evs[i - 1]
    BY <1>1, <1>3, <1>6, <2>2
  <2>4. FragmentOk(evs[i].arg, evs[i - 1].ev = "start",
                   i < Len(evs) /\ evs[i + 1].ev = "complete")
    BY <1>6, <2>1, Zenon DEF Marked
  <2>5. (i < Len(evs) /\ evs[i + 1].ev = "complete")
          <=> (i < Len(new) /\ new[i + 1].ev = "complete")
    <3>1. CASE i < Len(evs)
      <4>1. i < Len(new) /\ new[i + 1] = evs[i + 1]
        BY <1>1, <1>3, <1>6, <3>1
      <4> QED BY <3>1, <4>1
    <3>2. CASE i = Len(evs)
      BY <1>1, <1>3, <3>2
    <3> QED BY <1>1, <1>6, <3>1, <3>2
  <2> QED BY <2>1, <2>3, <2>4, <2>5, FragmentOkElsewhere, Zenon
<1>7. CASE i = Len(evs) + 1
  <2>1. new[i] = f /\ i < Len(new) /\ new[i + 1] = c
    BY <1>1, <1>3, <1>7
  <2>2. i - 1 = Len(evs) /\ new[i - 1] = evs[Len(evs)]
    BY <1>1, <1>3, <1>5, <1>7
  <2> QED BY <2>1, <2>2, FragmentOkElsewhere, Zenon
<1>8. CASE i = Len(evs) + 2
  BY <1>3, <1>4, <1>8
<1> QED BY <1>1, <1>3, <1>4, <1>6, <1>7, <1>8

\* A frame that has only begun has no image yet: this is what makes the next fragment the
\* one that is searched for the start of image.
SoiAwaited == events # <<>> /\ LastEvent = "start" => ~found_soi

\* A new frame: the one before is closed if it is open, and the next fragment is its first.
LEMMA BoundaryImages ==
  ASSUME IInv, ImagesMarked, SoiAwaited, Boundary
  PROVE  ImagesMarked' /\ SoiAwaited'
<1>1. events \in Seq(Events) /\ Grammatical(events) /\ Marked(events)
  BY DEF IInv, TypeOK, EventGrammar, ImagesMarked
<1>2. CASE ~NewFrame /\ UNCHANGED <<decVars, events>>
  BY <1>2 DEF ImagesMarked, SoiAwaited, LastEvent, decVars
<1>3. CASE NewFrame /\ ~UNCHANGED <<decVars, events>>
  <2> DEFINE incomplete == Event("incomplete", <<>>)
             start == Event("start", <<FrameId(cur_pos)>>)
             closed == IF building_frame /\ ~eof_reached
                         THEN Append(events, incomplete) ELSE events
  <2>1. events' = Append(closed, start) /\ found_soi' = FALSE
    BY <1>3 DEF Boundary
  <2>2. incomplete \in Events /\ start \in Events
    <3>1. TypeOK /\ InLoop
      BY DEF IInv, Boundary, Accepted, WholePkt, RealHdr
    <3>2. FrameId(cur_pos) \in Nat
      BY <3>1, ReadInBuffer
    <3> QED BY <3>2, EmptySeq DEF Event, Events, Kinds
  <2>3. incomplete.ev = "incomplete" /\ start.ev = "start"
    BY DEF Event
  <2> HIDE DEF start, incomplete
  <2>4. closed \in Seq(Events) /\ Grammatical(closed) /\ Marked(closed)
    <3>1. CASE building_frame /\ ~eof_reached
      <4>1. events # <<>> /\ events[Len(events)].ev \in {"start", "fragment"}
        BY <3>1 DEF IInv, LastCallback, LastEvent
      <4>2. <<events[Len(events)].ev, incomplete.ev>> \in Follows
        BY <4>1, <2>3 DEF Follows
      <4>3. closed = Append(events, incomplete)
        BY <3>1
      <4>4. Append(events, incomplete) \in Seq(Events) /\ Grammatical(Append(events, incomplete))
        BY <1>1, <2>2, <2>3, <4>1, <4>2, AppendGrammar
      <4>5. Marked(Append(events, incomplete))
        BY <1>1, <2>2, <2>3, MarkedAppend
      <4> QED BY <4>3, <4>4, <4>5
    <3>2. CASE ~(building_frame /\ ~eof_reached)
      BY <1>1, <3>2
    <3> QED BY <3>1, <3>2
  <2> HIDE DEF closed
  <2>5. Marked(Append(closed, start))
    BY <2>2, <2>3, <2>4, MarkedAppend
  <2> QED BY <2>1, <2>5 DEF ImagesMarked, SoiAwaited
<1> QED BY <1>2, <1>3 DEF Boundary

\* A fragment that is handed over has the markers it should have where it is.
LEMMA FragmentImages ==
  ASSUME IInv, ImagesMarked, SoiAwaited, Fragment
  PROVE  ImagesMarked' /\ SoiAwaited'
<1> DEFINE frag == Event("fragment", imgFragment)
           complete == Event("complete", <<>>)
<1>1. /\ pc = "fragment" /\ ~NoImage
      /\ events \in Seq(Events) /\ Grammatical(events) /\ Marked(events)
      /\ events # <<>> /\ events[Len(events)].ev \in {"start", "fragment"}
  BY DEF IInv, Fragment, AtFragment, NoImage, TypeOK, EventGrammar, LastCallback,
         LastEvent, ImagesMarked
<1>2. /\ frag \in Events /\ frag.ev = "fragment" /\ frag.arg = imgFragment
      /\ complete \in Events /\ complete.ev = "complete"
  BY <1>1, FragmentType, EmptySeq DEF Event, Events, Kinds
<1>3. withFragment = Append(events, frag)
  BY DEF withFragment
<1> HIDE DEF frag, complete
<1>4. FragmentOk(imgFragment, events[Len(events)].ev = "start", eoiAt # {})
  <2>1. FragmentOk(imgFragment, ~found_soi, eoiAt # {})
    BY <1>1, FragmentPiece
  <2>2. events[Len(events)].ev = "start" => ~found_soi
    BY <1>1 DEF SoiAwaited, LastEvent
  <2>3. found_soi \in BOOLEAN
    BY DEF IInv, TypeOK
  <2> QED BY <2>1, <2>2, <2>3, FragmentOkElsewhere, Zenon
<1>5. withFragment[Len(withFragment)] = frag /\ withFragment # <<>>
      /\ withFragment \in Seq(Events)
  <2>1. <<events[Len(events)].ev, frag.ev>> \in Follows
    BY <1>1, <1>2 DEF Follows
  <2> QED BY <1>1, <1>2, <1>3, <2>1, AppendGrammar
<1>6. CASE eoiAt = {}
  <2>1. events' = withFragment
    BY <1>6 DEF Fragment
  <2>2. FragmentOk(frag.arg, events[Len(events)].ev = "start", FALSE)
    BY <1>2, <1>4, <1>6, FragmentOkElsewhere, Zenon
  <2>3. Marked(Append(events, frag))
    <3>1. frag.ev # "complete"
      BY <1>2
    <3> QED BY <1>1, <1>2, <2>2, <3>1, MarkedAppend
  <2> QED BY <1>2, <1>3, <1>5, <2>1, <2>3 DEF ImagesMarked, SoiAwaited, LastEvent
<1>7. CASE eoiAt # {}
  <2>1. events' = Append(withFragment, complete)
    BY <1>7 DEF Fragment, complete
  <2>2. FragmentOk(frag.arg, events[Len(events)].ev = "start", TRUE)
    BY <1>2, <1>4, <1>7, FragmentOkElsewhere, Zenon
  <2>3. Marked(Append(Append(events, frag), complete))
    BY <1>1, <1>2, <2>2, MarkedAppendLast
  <2>4. events'[Len(events')] = complete
    BY <1>2, <1>5, <2>1, AppendProperties, LenProperties
  <2> QED BY <1>2, <1>3, <2>1, <2>3, <2>4 DEF ImagesMarked, SoiAwaited, LastEvent
<1> QED BY <1>6, <1>7

\* No other step makes a callback or touches found_soi.
LEMMA OthersQuiet ==
  ASSUME [Next]_vars, ~Boundary, ~Fragment
  PROVE  UNCHANGED <<events, found_soi>>
BY DEF Next, Deliver, KeepResidual, Decode, LoopExit, SeekByte, SkipGhost, RejectLength,
       NeedData, SkipShort, SkipDevice, SkipFragment, Finished, Advance, vars, decVars

LEMMA SpecImages == Spec => [](ImagesMarked /\ SoiAwaited)
<1>1. Init => ImagesMarked /\ SoiAwaited
  BY EmptySeq DEF Init, ImagesMarked, Marked, SoiAwaited
<1>2. IInv /\ ImagesMarked /\ SoiAwaited /\ [Next]_vars => (ImagesMarked /\ SoiAwaited)'
  <2>1. ASSUME UNCHANGED <<events, found_soi>>, ImagesMarked, SoiAwaited
        PROVE  (ImagesMarked /\ SoiAwaited)'
    BY <2>1 DEF ImagesMarked, SoiAwaited, LastEvent
  <2> QED BY <2>1, BoundaryImages, FragmentImages, OthersQuiet
<1> QED BY <1>1, <1>2, SpecIInv, PTL DEF Spec

\* Whatever the stream holds and however it is cut, the image handed over for a frame begins
\* with its SOI marker, ends with its first EOI marker when it is complete, and holds none
\* when it is not.
THEOREM ImagesFramed == Spec => []ImagesMarked
BY SpecImages, PTL

-----------------------------------------------------------------------------
(***************************************************************************)
(* Where the bytes come from.  The inductive invariant says what the       *)
(* buffer is, a stretch of the stream that ends with what has been         *)
(* delivered, and where the cursor is in the stream.                       *)
(***************************************************************************)
bufAt == sent - Len(buf)

\* The fragments of evs lie in the stream at the offsets at, below upTo, in order and apart.
Placed(evs, at, upTo) ==
    /\ at \in [1 .. Len(evs) -> Nat]
    /\ \A i \in 1 .. Len(evs) :
          evs[i].ev = "fragment" => /\ IsPiece(evs[i].arg, stream, at[i])
                                    /\ at[i] + Len(evs[i].arg) <= upTo
    /\ \A i, j \in 1 .. Len(evs) :
          i < j /\ evs[i].ev = "fragment" /\ evs[j].ev = "fragment" =>
              at[i] + Len(evs[i].arg) <= at[j]

FragmentsInOrder == \E at \in [1 .. Len(events) -> Nat] : Placed(events, at, bufAt + cur_pos)

BufferInStream ==
    /\ bufAt \in Nat
    /\ IsPiece(buf, stream, bufAt)
    /\ pc = "idle" => cur_pos = 0

LEMMA PlacedMore ==
  ASSUME NEW evs \in Seq(Events), NEW at, NEW u \in Int, NEW u2 \in Int, u <= u2,
         Placed(evs, at, u)
  PROVE  Placed(evs, at, u2)
<1>1. ASSUME NEW i \in 1 .. Len(evs), evs[i].ev = "fragment"
      PROVE  at[i] + Len(evs[i].arg) <= u2
  <2>1. evs[i] \in Events /\ at[i] \in Nat
    BY <1>1, ElementOfSeq DEF Placed
  <2>2. Len(evs[i].arg) \in Nat
    BY <2>1, LenProperties DEF Events
  <2>3. at[i] + Len(evs[i].arg) <= u
    BY <1>1 DEF Placed
  <2> QED BY <2>1, <2>2, <2>3
<1> QED BY <1>1 DEF Placed

\* A callback more, which is a fragment behind the others if it is one.
LEMMA PlacedAppend ==
  ASSUME NEW evs \in Seq(Events), NEW e \in Events, NEW at, NEW p \in Nat,
         NEW u \in Int, NEW u2 \in Int, u <= u2,
         Placed(evs, at, u),
         e.ev = "fragment" =>
            IsPiece(e.arg, stream, p) /\ u <= p /\ p + Len(e.arg) <= u2
  PROVE  \E at2 : Placed(Append(evs, e), at2, u2)
<1> DEFINE new == Append(evs, e)
           n == Len(evs)
           at2 == [i \in 1 .. n + 1 |-> IF i \in 1 .. n THEN at[i] ELSE p]
<1>1. /\ new \in Seq(Events) /\ n \in Nat /\ Len(new) = n + 1
      /\ \A i \in 1 .. n : new[i] = evs[i]
      /\ new[n + 1] = e
  BY AppendProperties, LenProperties
<1>2. Placed(evs, at, u2) /\ at \in [1 .. n -> Nat]
  BY PlacedMore DEF Placed
<1> HIDE DEF new, n
<1>3. /\ at2 \in [1 .. n + 1 -> Nat]
      /\ \A i \in 1 .. n : at2[i] = at[i]
      /\ at2[n + 1] = p
  BY <1>1, <1>2
<1> HIDE DEF at2
<1>4. \A i \in 1 .. Len(new) : i \in 1 .. n \/ i = n + 1
  BY <1>1
<1>5. ASSUME NEW i \in 1 .. Len(new), new[i].ev = "fragment"
      PROVE  IsPiece(new[i].arg, stream, at2[i]) /\ at2[i] + Len(new[i].arg) <= u2
  <2>1. CASE i \in 1 .. n
    <3>1. new[i] = evs[i] /\ at2[i] = at[i]
      BY <1>1, <1>3, <2>1
    <3> QED BY <1>2, <1>5, <2>1, <3>1 DEF Placed, n
  <2>2. CASE i = n + 1
    <3>1. new[i] = e /\ at2[i] = p
      BY <1>1, <1>3, <2>2
    <3> QED BY <1>5, <3>1
  <2> QED BY <1>4, <2>1, <2>2
<1>6. ASSUME NEW i \in 1 .. Len(new), NEW j \in 1 .. Len(new), i < j,
             new[i].ev = "fragment", new[j].ev = "fragment"
      PROVE  at2[i] + Len(new[i].arg) <= at2[j]
  <2>1. i \in 1 .. n /\ new[i] = evs[i] /\ at2[i] = at[i]
    <3>1. i \in 1 .. n
      BY <1>1, <1>6
    <3> QED BY <1>1, <1>3, <3>1
  <2>2. CASE j \in 1 .. n
    <3>1. new[j] = evs[j] /\ at2[j] = at[j]
      BY <1>1, <1>3, <2>2
    <3> QED BY <1>2, <1>6, <2>1, <2>2, <3>1 DEF Placed, n
  <2>3. CASE j = n + 1
    <3>1. new[j] = e /\ at2[j] = p
      BY <1>1, <1>3, <2>3
    <3>2. at[i] + Len(evs[i].arg) <= u
      BY <1>6, <2>1 DEF Placed, n
    <3>3. Len(evs[i].arg) \in Nat /\ at[i] \in Nat
      <4>1. evs[i] \in Events
        BY <2>1, ElementOfSeq DEF n
      <4>2. evs[i].arg \in Seq(Nat)
        BY <4>1 DEF Events
      <4> QED BY <1>2, <2>1, <4>2, LenProperties
    <3>4. u <= p
      BY <1>6, <3>1
    <3> QED BY <2>1, <3>1, <3>2, <3>3, <3>4
  <2> QED BY <1>4, <2>2, <2>3
<1>7. Placed(new, at2, u2)
  <2>1. at2 \in [1 .. Len(new) -> Nat]
    BY <1>1, <1>3
  <2> QED BY <1>5, <1>6, <2>1, Zenon DEF Placed
<1> QED BY <1>7 DEF new

PlaceInv == BufferInStream /\ FragmentsInOrder

\* The numbers of the invariant.
LEMMA PlaceTypes ==
  ASSUME IInv
  PROVE  /\ stream \in Seq(Nat) /\ Len(stream) \in Nat /\ sent \in Nat /\ sent <= Len(stream)
         /\ buf \in Seq(Nat) /\ Len(buf) \in Nat /\ cur_pos \in Nat /\ cur_pos <= Len(buf)
         /\ events \in Seq(Events) /\ bufAt \in Int
BY LenProperties DEF IInv, TypeOK, CursorInBuffer, bufAt

\* The cursor moves on over what is not, or no longer, wanted.
LEMMA MoveOnPlaced ==
  ASSUME IInv, IInv', PlaceInv, NEW n \in Nat, cur_pos' = cur_pos + n, pc' # "idle",
         UNCHANGED <<stream, sent, buf, events>>
  PROVE  PlaceInv'
<1>1. BufferInStream'
  BY DEF PlaceInv, BufferInStream, bufAt
<1>2. PICK at : Placed(events, at, bufAt + cur_pos)
  BY DEF PlaceInv, FragmentsInOrder
<1>3. Placed(events, at, bufAt + cur_pos + n)
  <2>1. /\ bufAt + cur_pos \in Int /\ bufAt + cur_pos + n \in Int
        /\ bufAt + cur_pos <= bufAt + cur_pos + n
    BY PlaceTypes
  <2> QED BY <1>2, <2>1, PlaceTypes, PlacedMore
<1>4. (bufAt + cur_pos)' = bufAt + cur_pos + n
  BY PlaceTypes DEF bufAt
<1>5. \E a \in [1 .. Len(events) -> Nat] : Placed(events, a, bufAt + cur_pos + n)
  BY <1>3 DEF Placed
<1>6. FragmentsInOrder'
  BY <1>4, <1>5 DEF FragmentsInOrder, Placed
<1> QED BY <1>1, <1>6 DEF PlaceInv

LEMMA SamePlaces ==
  ASSUME IInv, FragmentsInOrder, UNCHANGED <<stream, events>>, (bufAt + cur_pos)' = bufAt + cur_pos
  PROVE  FragmentsInOrder'
BY DEF FragmentsInOrder, Placed

\* A chunk is the next stretch of the stream.
LEMMA DeliverPlaced ==
  ASSUME IInv, IInv', PlaceInv, Deliver
  PROVE  PlaceInv'
<1>1. PICK n \in 1 .. Lesser(Len(stream) - sent, MaxChunk) :
         /\ buf' = buf \o SubSeq(stream, sent + 1, sent + n)
         /\ sent' = sent + n
  BY DEF Deliver
<1> DEFINE chunk == SubSeq(stream, sent + 1, sent + n)
<1>2. n \in Nat /\ sent + n <= Len(stream) /\ sent \in Nat /\ sent <= sent + n
      /\ sent + n \in Nat /\ sent + n - sent = n
  <2>1. sent \in Nat /\ Len(stream) \in Nat /\ MaxChunk \in Nat
    BY PlaceTypes
  <2>2. n \in Nat /\ n <= Len(stream) - sent
    BY <2>1 DEF Lesser
  <2> QED BY <2>1, <2>2
<1>3. chunk \in Seq(Nat) /\ Len(chunk) = n /\ IsPiece(chunk, stream, sent)
  <2>1. stream \in Seq(Nat)
    BY PlaceTypes
  <2> DEFINE e == sent + n
  <2>2. e \in Nat /\ sent \in Nat /\ sent <= e /\ e <= Len(stream) /\ e - sent = n
    BY <1>2
  <2> HIDE DEF e
  <2>3. /\ SubSeq(stream, sent + 1, e) \in Seq(Nat) /\ Len(SubSeq(stream, sent + 1, e)) = e - sent
        /\ IsPiece(SubSeq(stream, sent + 1, e), stream, sent)
    BY <2>1, <2>2, SubSeqPiece, Zenon
  <2> QED BY <2>2, <2>3, Zenon DEF e
<1>4. buf' = buf \o chunk
  BY <1>1
<1> HIDE DEF chunk
<1>5. /\ buf' \in Seq(Nat) /\ Len(buf') = Len(buf) + n
      /\ \A k \in 1 .. Len(buf) + n : buf'[k] = IF k <= Len(buf) THEN buf[k] ELSE chunk[k - Len(buf)]
  BY <1>3, <1>4, PlaceTypes, ConcatProperties
<1>6. bufAt' = bufAt
  BY <1>1, <1>2, <1>5, PlaceTypes DEF bufAt
<1>7. IsPiece(buf', stream, bufAt)
  <2>1. bufAt \in Nat /\ bufAt + Len(buf) = sent
    BY PlaceTypes DEF PlaceInv, BufferInStream, bufAt
  <2>2. ASSUME NEW k \in 1 .. Len(buf') PROVE buf'[k] = stream[bufAt + k]
    <3>1. CASE k <= Len(buf)
      <4>1. buf'[k] = buf[k] /\ k \in 1 .. Len(buf)
        BY <1>5, <3>1, PlaceTypes
      <4> QED BY <4>1 DEF PlaceInv, BufferInStream, IsPiece
    <3>2. CASE ~(k <= Len(buf))
      <4> DEFINE j == k - Len(buf)
      <4>1. j \in 1 .. n /\ bufAt + k = sent + j /\ k \in 1 .. Len(buf) + n
        <5>1. k \in 1 .. Len(buf) + n
          BY <1>5
        <5>2. Len(buf) \in Nat
          BY PlaceTypes
        <5>3. k \in Nat /\ k > Len(buf) /\ k <= Len(buf) + n
          BY <1>2, <3>2, <5>1, <5>2
        <5>4. j \in 1 .. n
          BY <1>2, <5>2, <5>3
        <5>5. bufAt + k = sent + j
          BY <1>2, <2>1, <5>2, <5>3
        <5> QED BY <5>1, <5>4, <5>5
      <4>2. buf'[k] = chunk[j]
        BY <1>5, <3>2, <4>1
      <4> HIDE DEF j
      <4>3. chunk[j] = stream[sent + j]
        BY <1>3, <4>1 DEF IsPiece
      <4> QED BY <4>1, <4>2, <4>3
    <3> QED BY <3>1, <3>2
  <2>3. bufAt + Len(buf') <= Len(stream)
    BY <1>2, <1>5, <2>1, PlaceTypes
  <2> QED BY <2>2, <2>3 DEF IsPiece
<1>8. cur_pos = 0 /\ cur_pos' = 0 /\ pc' = "loop" /\ UNCHANGED <<stream, events>>
  BY DEF Deliver, PlaceInv, BufferInStream
<1>9. BufferInStream'
  BY <1>6, <1>7, <1>8 DEF PlaceInv, BufferInStream
<1>10. FragmentsInOrder'
  BY <1>6, <1>8, SamePlaces DEF PlaceInv
<1> QED BY <1>9, <1>10 DEF PlaceInv

\* What is kept is where it was in the stream.
LEMMA KeepResidualPlaced ==
  ASSUME IInv, IInv', PlaceInv, KeepResidual
  PROVE  PlaceInv'
<1>1. /\ buf' = SubSeq(buf, cur_pos + 1, Len(buf)) /\ cur_pos' = 0
      /\ UNCHANGED <<stream, sent, events>>
  BY DEF KeepResidual
<1>2. Len(buf') = Len(buf) - cur_pos /\ IsPiece(buf', buf, cur_pos) /\ buf' \in Seq(Nat)
  <2>1. /\ buf \in Seq(Nat) /\ cur_pos \in Nat /\ Len(buf) \in Nat
        /\ cur_pos <= Len(buf) /\ Len(buf) <= Len(buf)
    BY PlaceTypes
  <2> QED BY <1>1, <2>1, SubSeqPiece, Zenon
<1>3. bufAt \in Nat /\ IsPiece(buf, stream, bufAt)
  BY DEF PlaceInv, BufferInStream
<1>4. IsPiece(buf', stream, bufAt + cur_pos)
  BY <1>2, <1>3, PlaceTypes, PieceOfPiece
<1>5. bufAt' = bufAt + cur_pos /\ bufAt + cur_pos \in Nat /\ (bufAt + cur_pos)' = bufAt + cur_pos
  <2>1. sent \in Nat /\ Len(buf) \in Nat /\ cur_pos \in Nat
    BY PlaceTypes
  <2>2. bufAt' = sent - (Len(buf) - cur_pos) /\ cur_pos' = 0
    BY <1>1, <1>2 DEF bufAt
  <2>3. bufAt' = bufAt + cur_pos
    BY <2>1, <2>2 DEF bufAt
  <2> QED BY <1>3, <2>1, <2>2, <2>3
<1>6. BufferInStream'
  BY <1>1, <1>4, <1>5 DEF BufferInStream
<1>7. FragmentsInOrder'
  BY <1>1, <1>5, SamePlaces DEF PlaceInv
<1> QED BY <1>6, <1>7 DEF PlaceInv

\* The callbacks of a boundary take nothing from the stream.
LEMMA BoundaryPlaced ==
  ASSUME IInv, IInv', PlaceInv, Boundary
  PROVE  PlaceInv'
<1>1. UNCHANGED <<stream, sent, buf, cur_pos>> /\ pc' # "idle"
  BY DEF Boundary
<1>2. BufferInStream'
  BY <1>1 DEF PlaceInv, BufferInStream, bufAt
<1>3. (bufAt + cur_pos)' = bufAt + cur_pos /\ bufAt + cur_pos \in Int
  BY <1>1, PlaceTypes DEF bufAt
<1> DEFINE u == bufAt + cur_pos
<1>4. PICK at : Placed(events, at, u)
  BY DEF PlaceInv, FragmentsInOrder
<1>5. ASSUME NEW evs \in Seq(Events), NEW a, Placed(evs, a, u),
             NEW e \in Events, e.ev # "fragment"
      PROVE  \E a2 : Placed(Append(evs, e), a2, u)
  <2>1. u \in Int /\ u <= u /\ 0 \in Nat
    BY <1>3
  <2> HIDE DEF u
  <2> QED BY <1>5, <2>1, PlacedAppend
<1>6. \E a : Placed(events', a, u)
  <2>1. CASE UNCHANGED <<decVars, events>>
    BY <1>4, <2>1
  <2>2. CASE NewFrame /\ ~UNCHANGED <<decVars, events>>
    <3> DEFINE e == Event("incomplete", <<>>)
               f == Event("start", <<FrameId(cur_pos)>>)
               closed == IF building_frame /\ ~eof_reached THEN Append(events, e) ELSE events
    <3>1. events' = Append(closed, f)
      BY <2>2 DEF Boundary
    <3>2. e \in Events /\ f \in Events
      <4>1. TypeOK /\ InLoop
        BY DEF IInv, Boundary, Accepted, WholePkt, RealHdr
      <4>2. FrameId(cur_pos) \in Nat
        BY <4>1, ReadInBuffer
      <4> QED BY <4>2, EmptySeq DEF Event, Events, Kinds
    <3>3. e.ev # "fragment" /\ f.ev # "fragment"
      BY DEF Event
    <3> HIDE DEF e, f, u
    <3>4. closed \in Seq(Events) /\ \E a : Placed(closed, a, u)
      <4>1. CASE building_frame /\ ~eof_reached
        <5>1. closed = Append(events, e)
          BY <4>1
        <5>2. Append(events, e) \in Seq(Events)
          BY <3>2, PlaceTypes, AppendProperties
        <5>3. \E a : Placed(Append(events, e), a, u)
          BY <1>4, <1>5, <3>2, <3>3, PlaceTypes
        <5> QED BY <5>1, <5>2, <5>3, Zenon
      <4>2. CASE ~(building_frame /\ ~eof_reached)
        BY <1>4, <4>2, PlaceTypes
      <4> QED BY <4>1, <4>2
    <3> HIDE DEF closed
    <3> QED BY <1>5, <3>1, <3>2, <3>3, <3>4
  <2> QED BY <2>1, <2>2 DEF Boundary
<1>7. FragmentsInOrder'
  <2>1. PICK a : Placed(events', a, u)
    BY <1>6
  <2>2. a \in [1 .. Len(events') -> Nat]
    BY <2>1 DEF Placed
  <2>3. Placed(events, a, u)'
    BY <1>1, <1>3, <2>1 DEF Placed
  <2> QED BY <1>3, <2>2, <2>3 DEF FragmentsInOrder
<1> QED BY <1>2, <1>7 DEF PlaceInv

\* A fragment lies in its packet, the packet behind the cursor.
LEMMA FragmentPlaced ==
  ASSUME IInv, IInv', PlaceInv, Fragment
  PROVE  PlaceInv'
<1> DEFINE f == Event("fragment", imgFragment)
           c == Event("complete", <<>>)
           u == bufAt + cur_pos
           u2 == bufAt + cur_pos + usb_frm_len
<1>1. /\ UNCHANGED <<stream, sent, buf>> /\ pc' # "idle" /\ cur_pos' = cur_pos + usb_frm_len
      /\ pc = "fragment" /\ ~NoImage
  BY DEF Fragment
<1>2. BufferInStream'
  BY <1>1 DEF PlaceInv, BufferInStream, bufAt
<1>3. usb_frm_len \in Nat /\ imgFragment \in Seq(Nat) /\ Len(imgFragment) \in Nat
  BY <1>1, FragmentPiece, LenProperties
<1>4. PICK n \in Nat : /\ IsPiece(imgFragment, buf, n)
                       /\ cur_pos <= n /\ n + Len(imgFragment) <= cur_pos + usb_frm_len
  BY <1>1, FragmentPiece
<1>5. bufAt \in Nat /\ IsPiece(buf, stream, bufAt)
  BY DEF PlaceInv, BufferInStream
<1>6. IsPiece(imgFragment, stream, bufAt + n)
  BY <1>3, <1>4, <1>5, PlaceTypes, PieceOfPiece
<1>7. /\ u \in Int /\ u2 \in Int /\ u <= u2 /\ u2 <= u2 /\ bufAt + n \in Nat
      /\ u <= bufAt + n /\ bufAt + n + Len(imgFragment) <= u2
  BY <1>3, <1>4, <1>5, PlaceTypes, SMTT(60)
<1>8. /\ f \in Events /\ f.arg = imgFragment /\ c \in Events /\ c.ev # "fragment"
  BY <1>3, EmptySeq DEF Event, Events, Kinds
<1>9. withFragment = Append(events, f) /\ withFragment \in Seq(Events)
  <2>1. withFragment = Append(events, f)
    BY DEF withFragment
  <2> HIDE DEF f
  <2> QED BY <1>8, <2>1, PlaceTypes, AppendProperties
<1>10. PICK at : Placed(events, at, u)
  BY DEF PlaceInv, FragmentsInOrder
<1>11. (bufAt + cur_pos)' = u2
  BY <1>1, <1>3, PlaceTypes DEF bufAt
<1> HIDE DEF f, c, u, u2
<1>12. \E a : Placed(withFragment, a, u2)
  BY <1>6, <1>7, <1>8, <1>9, <1>10, PlaceTypes, PlacedAppend
<1>13. \E a : Placed(events', a, u2)
  <2>1. CASE eoiAt = {}
    <3>1. events' = withFragment
      BY <2>1 DEF Fragment
    <3> QED BY <1>12, <3>1
  <2>2. CASE eoiAt # {}
    <3>1. events' = Append(withFragment, c)
      BY <2>2 DEF Fragment, c
    <3>2. PICK a : Placed(withFragment, a, u2)
      BY <1>12
    <3>3. \E a2 : Placed(Append(withFragment, c), a2, u2)
      <4>1. 0 \in Nat
        OBVIOUS
      <4> QED BY <1>7, <1>8, <1>9, <3>2, <4>1, PlacedAppend
    <3> QED BY <3>1, <3>3
  <2> QED BY <2>1, <2>2
<1>14. FragmentsInOrder'
  <2>1. PICK a : Placed(events', a, u2)
    BY <1>13
  <2>2. a \in [1 .. Len(events') -> Nat]
    BY <2>1 DEF Placed
  <2>3. Placed(events, a, bufAt + cur_pos)'
    BY <1>1, <1>11, <2>1 DEF Placed
  <2> QED BY <2>2, <2>3 DEF FragmentsInOrder
<1> QED BY <1>2, <1>14 DEF PlaceInv

LEMMA NextPlaced ==
  ASSUME IInv, IInv', PlaceInv, [Next]_vars
  PROVE  PlaceInv'
<1>0. TypeOK /\ cur_pos \in Nat
  BY DEF IInv, TypeOK
<1>1. CASE Deliver
  BY <1>1, DeliverPlaced
<1>2. CASE KeepResidual
  BY <1>2, KeepResidualPlaced
<1>3. CASE Boundary
  BY <1>3, BoundaryPlaced
<1>4. CASE Fragment
  BY <1>4, FragmentPlaced
<1>5. CASE LoopExit \/ NeedData
  <2>1. /\ UNCHANGED <<stream, sent, buf, events>> /\ pc' # "idle"
        /\ cur_pos' = cur_pos + 0 /\ 0 \in Nat
    BY <1>0, <1>5 DEF LoopExit, NeedData
  <2> QED BY <2>1, MoveOnPlaced
<1>6. ASSUME NEW n \in Nat, Advance(n) PROVE PlaceInv'
  BY <1>6, MoveOnPlaced DEF Advance
<1>7. CASE SeekByte \/ RejectLength
  BY <1>6, <1>7 DEF SeekByte, RejectLength
<1>8. CASE SkipGhost
  BY <1>0, <1>6, <1>8, GhostInBuffer DEF SkipGhost
<1>9. CASE SkipShort \/ SkipDevice
  <2>1. InLoop /\ Advance(usb_frm_len)
    BY <1>9 DEF SkipShort, SkipDevice, WholePkt, RealHdr
  <2> QED BY <1>0, <1>6, <2>1, ReadInBuffer
<1>10. CASE SkipFragment
  <2>1. usb_frm_len \in Nat
    BY <1>10 DEF SkipFragment, IInv, AtFragment, usb_frm_len
  <2> QED BY <1>6, <1>10, <2>1 DEF SkipFragment
<1>11. CASE UNCHANGED vars
  <2>1. UNCHANGED <<stream, sent, buf, cur_pos, events, pc>>
    BY <1>11 DEF vars
  <2>2. BufferInStream' /\ (bufAt + cur_pos)' = bufAt + cur_pos
    BY <2>1 DEF PlaceInv, BufferInStream, bufAt
  <2> QED BY <2>1, <2>2, SamePlaces DEF PlaceInv
<1> QED
  BY <1>1, <1>2, <1>3, <1>4, <1>5, <1>7, <1>8, <1>9, <1>10, <1>11
     DEF Next, Decode, Finished

LEMMA InitPlaced == Init => PlaceInv
<1> SUFFICES ASSUME Init PROVE PlaceInv
  OBVIOUS
<1>1. /\ buf = <<>> /\ Len(buf) = 0 /\ sent = 0 /\ cur_pos = 0 /\ events = <<>> /\ Len(events) = 0
      /\ stream \in Seq(Nat) /\ Len(stream) \in Nat
  BY EmptySeq, LenProperties DEF Init
<1>2. BufferInStream
  BY <1>1 DEF BufferInStream, bufAt, IsPiece
<1>3. FragmentsInOrder
  <2> DEFINE a == [i \in 1 .. Len(events) |-> 0]
  <2>1. a \in [1 .. Len(events) -> Nat]
    OBVIOUS
  <2>2. 1 .. Len(events) = {}
    BY <1>1
  <2> HIDE DEF a
  <2>3. Placed(events, a, bufAt + cur_pos)
    BY <2>1, <2>2 DEF Placed
  <2> QED BY <2>1, <2>3 DEF FragmentsInOrder
<1> QED BY <1>2, <1>3 DEF PlaceInv

\* Whatever the stream holds and however it is cut, the fragments that are handed over are
\* stretches of the stream, in its order: no byte comes from elsewhere, none is handed over
\* twice, and none behind the cursor.
THEOREM FragmentsFromStream == Spec => []FragmentsInOrder
<1>1. IInv /\ IInv' /\ PlaceInv /\ [Next]_vars => PlaceInv'
  BY NextPlaced
<1>2. PlaceInv => FragmentsInOrder
  BY DEF PlaceInv
<1> QED BY <1>1, <1>2, InitPlaced, SpecIInv, PTL DEF Spec

-----------------------------------------------------------------------------
(* Why up_decode_bulk returns: what is left of the buffer.                 *)

TurnsLeft == 2 * (Len(buf) - cur_pos) + (IF pc = "loop" THEN 1 ELSE 0)

\* Every turn leaves less to do, down to nothing: that a turn is taken again and again without
\* the decoder returning cannot be, whatever the stream holds.  (That turns are taken is
\* fairness, and DecodeTerminates.)
THEOREM TurnsRunOut == Spec => [][Decode => TurnsLeft' \in Nat /\ TurnsLeft' < TurnsLeft]_vars
<1>1. ASSUME IInv, IInv', Decode PROVE TurnsLeft' \in Nat /\ TurnsLeft' < TurnsLeft
  <2> DEFINE left == Len(buf) - cur_pos
  <2>1. /\ TypeOK /\ left \in Nat /\ Len(buf) \in Nat /\ cur_pos \in Nat
        /\ TurnsLeft = 2 * left + (IF pc = "loop" THEN 1 ELSE 0)
    BY <1>1, PlaceTypes DEF IInv, TurnsLeft
  <2>2. UNCHANGED buf /\ left' \in Nat
    <3>1. UNCHANGED buf
      BY <1>1 DEF Decode, LoopExit, SeekByte, SkipGhost, RejectLength, NeedData, SkipShort,
                  SkipDevice, Boundary, SkipFragment, Fragment, Advance
    <3>2. cur_pos' \in Nat /\ cur_pos' <= Len(buf')
      BY <1>1 DEF IInv, TypeOK, CursorInBuffer
    <3> QED BY <2>1, <3>1, <3>2
  <2>3. TurnsLeft' = 2 * left' + (IF pc' = "loop" THEN 1 ELSE 0)
    BY DEF TurnsLeft
  <2>4. CASE pc = "loop" /\ UNCHANGED cur_pos /\ pc' # "loop"
    BY <2>1, <2>2, <2>3, <2>4
  <2>5. ASSUME NEW n \in Nat, n >= 1, cur_pos' = cur_pos + n
        PROVE  TurnsLeft' \in Nat /\ TurnsLeft' < TurnsLeft
    <3>1. left' = left - n
      BY <2>1, <2>2, <2>5
    <3> HIDE DEF left
    <3>2. CASE pc' = "loop"
      <4>1. TurnsLeft' = 2 * left' + 1 /\ TurnsLeft >= 2 * left
        BY <2>1, <2>3, <3>2
      <4> QED BY <2>1, <2>2, <2>5, <3>1, <4>1
    <3>3. CASE pc' # "loop"
      <4>1. TurnsLeft' = 2 * left' /\ TurnsLeft >= 2 * left
        BY <2>1, <2>2, <2>3, <3>3
      <4> QED BY <2>1, <2>2, <2>5, <3>1, <4>1
    <3> QED BY <3>2, <3>3
  <2> HIDE DEF left
  <2>6. CASE LoopExit \/ NeedData \/ Boundary
    BY <2>4, <2>6 DEF LoopExit, NeedData, Boundary, Accepted, WholePkt, RealHdr, InLoop
  <2>7. CASE SeekByte \/ RejectLength
    BY <2>5, <2>7 DEF SeekByte, RejectLength, Advance
  <2>8. CASE SkipGhost
    <3>1. InLoop /\ GhostOffsets # {}
      BY <2>8 DEF SkipGhost
    <3>2. Least(GhostOffsets) \in Nat /\ Least(GhostOffsets) >= 1
      <4>1. \A o \in GhostOffsets : o \in Nat /\ o >= 1
        BY <2>1 DEF GhostOffsets, Lesser
      <4>2. GhostOffsets \subseteq Nat
        BY <4>1
      <4> QED BY <3>1, <4>1, <4>2, LeastInSet
    <3> QED BY <2>5, <2>8, <3>2 DEF SkipGhost, Advance
  <2>9. CASE SkipShort \/ SkipDevice
    <3>1. InLoop /\ Advance(usb_frm_len)
      BY <2>9 DEF SkipShort, SkipDevice, WholePkt, RealHdr
    <3>2. usb_frm_len \in Nat /\ usb_frm_len >= 1
      BY <2>1, <3>1, ReadInBuffer DEF usb_frm_len
    <3> QED BY <2>5, <3>1, <3>2 DEF Advance
  <2>10. CASE SkipFragment \/ Fragment
    <3>1. usb_frm_len \in Nat /\ usb_frm_len >= 1
      BY <1>1, <2>10 DEF IInv, AtFragment, SkipFragment, Fragment, usb_frm_len
    <3> QED BY <2>5, <2>10, <3>1 DEF SkipFragment, Fragment, Advance
  <2> QED BY <1>1, <2>6, <2>7, <2>8, <2>9, <2>10 DEF Decode
<1>2. IInv /\ IInv' /\ [Next]_vars => [Decode => TurnsLeft' \in Nat /\ TurnsLeft' < TurnsLeft]_vars
  BY <1>1
<1> QED BY <1>2, SpecIInv, PTL DEF Spec

-----------------------------------------------------------------------------
(***************************************************************************)
(* Streams made of packets.  First, that the function ReadUpTo is the one  *)
(* its equation describes: for each n there is a function that satisfies   *)
(* it up to n, any two agree as far as both go, and ReadUpTo takes from    *)
(* each its last value.                                                    *)
(***************************************************************************)
\* g satisfies the equation of ReadUpTo(s) up to n.
ReadsTo(s, g, n) ==
    g = [i \in 0 .. n |-> IF i = 0 THEN Unread ELSE Past(s, g[i - 1], i - 1)]

\* What begins at zero and goes on for ever reaches every number.
LEMMA EveryNumber ==
  ASSUME NEW S, 0 \in S, \A n \in Nat : n \in S => n + 1 \in S
  PROVE  \A n \in Nat : n \in S
<1> SUFFICES ASSUME Nat \ S # {} PROVE FALSE
  OBVIOUS
<1>1. Least(Nat \ S) \in Nat \ S /\ \A x \in Nat \ S : Least(Nat \ S) <= x
  BY LeastIsLeast
<1> DEFINE m == Least(Nat \ S)
<1> HIDE DEF m
<1>2. m \in Nat /\ m \notin S /\ \A x \in Nat \ S : m <= x
  BY <1>1 DEF m
<1>3. m # 0
  BY <1>2
<1>4. m - 1 \in Nat /\ m - 1 + 1 = m /\ ~(m <= m - 1)
  BY <1>2, <1>3
<1>5. m - 1 \in S
  BY <1>2, <1>4
<1> QED BY <1>2, <1>4, <1>5

LEMMA ReadsToStep ==
  ASSUME NEW s, NEW g, NEW n \in Nat, ReadsTo(s, g, n)
  PROVE  /\ g[0] = Unread
         /\ \A i \in 0 .. n : i # 0 => g[i] = Past(s, g[i - 1], i - 1)
<1>1. 0 \in 0 .. n
  OBVIOUS
<1> QED BY <1>1, Zenon DEF ReadsTo

LEMMA ReadsToExists == \A s : \A n \in Nat : \E g : ReadsTo(s, g, n)
<1> SUFFICES ASSUME NEW s PROVE \A n \in Nat : \E g : ReadsTo(s, g, n)
  OBVIOUS
<1> DEFINE S == {n \in Nat : \E g : ReadsTo(s, g, n)}
<1>1. 0 \in S
  <2> DEFINE g == [i \in 0 .. 0 |-> Unread]
  <2>1. ReadsTo(s, g, 0)
    <3>1. \A i \in 0 .. 0 : i = 0
      OBVIOUS
    <3> QED BY <3>1, Zenon DEF ReadsTo
  <2> QED BY <2>1
<1>2. ASSUME NEW n \in Nat, n \in S PROVE n + 1 \in S
  <2>1. PICK g : ReadsTo(s, g, n)
    BY <1>2
  <2> DEFINE m == n + 1
             h == [i \in 0 .. m |-> IF i = m THEN Past(s, g[n], n) ELSE g[i]]
             e == [i \in 0 .. m |-> IF i = 0 THEN Unread ELSE Past(s, h[i - 1], i - 1)]
  <2>2. ASSUME NEW i \in 0 .. m PROVE h[i] = (IF i = 0 THEN Unread ELSE Past(s, h[i - 1], i - 1))
    <3>1. CASE i = m
      <4>1. i # 0 /\ i - 1 = n /\ n \in 0 .. m /\ n # m
        BY <3>1
      <4>2. h[i] = Past(s, g[n], n) /\ h[n] = g[n]
        BY <3>1, <4>1
      <4> HIDE DEF h
      <4> QED BY <4>1, <4>2
    <3>2. CASE i = 0
      <4>1. 0 # m /\ 0 \in 0 .. m
        OBVIOUS
      <4> QED BY <2>1, <3>2, <4>1, ReadsToStep
    <3>3. CASE i # m /\ i # 0
      <4>1. i \in 0 .. n /\ i - 1 \in 0 .. m /\ i - 1 # m
        BY <3>3
      <4>2. h[i] = g[i] /\ h[i - 1] = g[i - 1]
        BY <3>3, <4>1
      <4>3. g[i] = Past(s, g[i - 1], i - 1)
        BY <2>1, <3>3, <4>1, ReadsToStep
      <4> HIDE DEF h
      <4> QED BY <3>3, <4>2, <4>3
    <3> QED BY <3>1, <3>2, <3>3
  <2>3. h = e
    <3>1. h = [i \in 0 .. m |-> h[i]]
      BY Zenon
    <3> HIDE DEF h
    <3> QED BY <2>2, <3>1, Zenon
  <2>4. ReadsTo(s, h, m)
    <3> HIDE DEF h, m
    <3> QED BY <2>3, Zenon DEF ReadsTo
  <2> QED BY <2>4
<1> HIDE DEF S
<1>3. \A n \in Nat : n \in S
  BY <1>1, <1>2, EveryNumber
<1> QED BY <1>3 DEF S

LEMMA ReadsToAgree ==
  ASSUME NEW s, NEW g, NEW h, NEW n \in Nat, ReadsTo(s, g, n), ReadsTo(s, h, n + 1)
  PROVE  g[n] = h[n]
<1> DEFINE S == {i \in Nat : i <= n => g[i] = h[i]}
<1>0. n + 1 \in Nat
  OBVIOUS
<1>1. 0 \in S
  BY <1>0, ReadsToStep
<1>2. ASSUME NEW i \in Nat, i \in S PROVE i + 1 \in S
  <2> SUFFICES ASSUME i + 1 <= n PROVE g[i + 1] = h[i + 1]
    OBVIOUS
  <2> DEFINE j == i + 1
  <2>1. j \in 0 .. n /\ j \in 0 .. n + 1 /\ j # 0 /\ j - 1 = i /\ i <= n
    OBVIOUS
  <2>2. g[i] = h[i]
    BY <1>2, <2>1
  <2> HIDE DEF j
  <2>3. g[j] = Past(s, g[j - 1], j - 1) /\ h[j] = Past(s, h[j - 1], j - 1)
    BY <1>0, <2>1, ReadsToStep
  <2> QED BY <2>1, <2>2, <2>3 DEF j
<1> HIDE DEF S
<1>3. n \in S
  BY <1>1, <1>2, EveryNumber
<1> QED BY <1>3 DEF S

\* Reading up to the next position is reading up to this one, and the packet here if there
\* is one.
LEMMA ReadUpToNext ==
  ASSUME NEW s
  PROVE  /\ ReadUpTo(s)[0] = Unread
         /\ \A n \in Nat : ReadUpTo(s)[n + 1] = Past(s, ReadUpTo(s)[n], n)
<1> DEFINE G(n) == CHOOSE g : ReadsTo(s, g, n)
           f == [n \in Nat |-> G(n)[n]]
           F(r) == [n \in Nat |-> IF n = 0 THEN Unread ELSE Past(s, r[n - 1], n - 1)]
<1>1. \A n \in Nat : ReadsTo(s, G(n), n)
  BY ReadsToExists, Zenon
<1> HIDE DEF G
<1>2. ASSUME NEW n \in Nat PROVE f[n] = (IF n = 0 THEN Unread ELSE Past(s, f[n - 1], n - 1))
  <2>1. CASE n = 0
    BY <1>1, <2>1, ReadsToStep
  <2>2. CASE n # 0
    <3> DEFINE m == n - 1
    <3>1. m \in Nat /\ m + 1 = n /\ n \in 0 .. n
      BY <2>2
    <3>2. f[n] = G(n)[n] /\ f[m] = G(m)[m]
      BY <3>1
    <3>3. G(n)[n] = Past(s, G(n)[m], m)
      BY <1>1, <2>2, <3>1, ReadsToStep
    <3> HIDE DEF m, f
    <3>4. G(m)[m] = G(n)[m]
      BY <1>1, <3>1, ReadsToAgree
    <3> QED BY <2>2, <3>2, <3>3, <3>4 DEF m
  <2> QED BY <2>1, <2>2
<1>3. f = F(f)
  <2>1. f = [n \in Nat |-> f[n]]
    BY Zenon
  <2> HIDE DEF f
  <2> QED BY <1>2, <2>1, Zenon
<1>4. ReadUpTo(s) = CHOOSE r : r = F(r)
  BY Zenon DEF ReadUpTo
<1> HIDE DEF f
<1>5. ReadUpTo(s) = F(ReadUpTo(s))
  <2>1. \E r : r = F(r)
    BY <1>3, Zenon
  <2> HIDE DEF F
  <2> QED BY <1>4, <2>1, Zenon
<1> DEFINE R == ReadUpTo(s)
<1>6. \A n \in Nat : R[n] = (IF n = 0 THEN Unread ELSE Past(s, R[n - 1], n - 1))
  <2> HIDE DEF R
  <2> QED BY <1>5, Zenon DEF R
<1> HIDE DEF R
<1>7. R[0] = Unread /\ \A n \in Nat : R[n + 1] = Past(s, R[n], n)
  <2>1. 0 \in Nat
    OBVIOUS
  <2>2. ASSUME NEW n \in Nat PROVE R[n + 1] = Past(s, R[n], n)
    <3> DEFINE m == n + 1
    <3>1. m \in Nat /\ m # 0 /\ m - 1 = n
      OBVIOUS
    <3> HIDE DEF m
    <3>2. R[m] = Past(s, R[m - 1], m - 1)
      BY <1>6, <3>1
    <3>3. R[m] = Past(s, R[n], n)
      BY <3>1, <3>2
    <3> QED BY <3>3 DEF m
  <2> QED BY <1>6, <2>1, <2>2, Zenon
<1> QED BY <1>7, Zenon DEF R

\* Where no packet begins there is nothing to read.
LEMMA NothingToRead ==
  ASSUME NEW s, NEW a \in Nat, NEW b \in Nat, a <= b,
         \A p \in Packets[s] : ~(a <= p /\ p < b), Packets[s] \subseteq Nat
  PROVE  ReadUpTo(s)[b] = ReadUpTo(s)[a]
<1> DEFINE R == ReadUpTo(s)
           S == {k \in Nat : a + k <= b => R[a + k] = R[a]}
<1>1. 0 \in S
  <2>1. a + 0 = a
    OBVIOUS
  <2> HIDE DEF R
  <2> QED BY <2>1
<1>2. ASSUME NEW k \in Nat, k \in S PROVE k + 1 \in S
  <2> SUFFICES ASSUME a + (k + 1) <= b PROVE R[a + (k + 1)] = R[a]
    OBVIOUS
  <2> DEFINE n == a + k
  <2>1. n \in Nat /\ a + (k + 1) = n + 1 /\ a <= n /\ n < b /\ a + k <= b
    OBVIOUS
  <2>2. n \notin Packets[s]
    BY <2>1
  <2>3. R[n] = R[a]
    BY <1>2, <2>1
  <2> HIDE DEF n
  <2>4. R[n + 1] = Past(s, R[n], n)
    BY <2>1, ReadUpToNext, Zenon
  <2>5. Past(s, R[n], n) = R[n]
    BY <2>2, Zenon DEF Past
  <2> QED BY <2>1, <2>3, <2>4, <2>5, Zenon
<1> HIDE DEF S
<1>3. b - a \in Nat /\ a + (b - a) = b /\ b <= b
  OBVIOUS
<1>4. b - a \in S
  BY <1>1, <1>2, <1>3, EveryNumber, Zenon
<1> QED
  <2> HIDE DEF R
  <2>1. a + (b - a) <= b => R[a + (b - a)] = R[a]
    BY <1>4, Zenon DEF S
  <2>2. R[b] = R[a]
    BY <1>3, <2>1, Zenon
  <2> QED BY <2>2, Zenon DEF R

-----------------------------------------------------------------------------
(* What the decoder looks at is in the stream, at the cursor's place there. *)

streamPos == bufAt + cur_pos

LEMMA InStream ==
  ASSUME IInv, BufferInStream
  PROVE  /\ streamPos \in Nat /\ streamPos + (Len(buf) - cur_pos) = sent /\ sent <= Len(stream)
         /\ Len(buf) - cur_pos \in Nat
         /\ \A k \in 1 .. Len(buf) - cur_pos : buf[cur_pos + k] = stream[streamPos + k]
<1>1. /\ bufAt \in Nat /\ bufAt + Len(buf) = sent /\ cur_pos \in Nat /\ Len(buf) \in Nat
      /\ cur_pos <= Len(buf) /\ sent <= Len(stream) /\ sent \in Nat
  BY PlaceTypes DEF BufferInStream, bufAt
<1>2. ASSUME NEW k \in 1 .. Len(buf) - cur_pos
      PROVE  buf[cur_pos + k] = stream[streamPos + k]
  <2> DEFINE j == cur_pos + k
  <2>1. j \in 1 .. Len(buf) /\ streamPos + k = bufAt + j
    BY <1>1 DEF streamPos
  <2> HIDE DEF j
  <2>2. buf[j] = stream[bufAt + j]
    BY <2>1, Zenon DEF BufferInStream, IsPiece
  <2> QED BY <2>1, <2>2 DEF j
<1> QED BY <1>1, <1>2 DEF streamPos

LEMMA HeaderInStream ==
  ASSUME IInv, BufferInStream, cur_pos + DATA_OFFSET <= Len(buf)
  PROVE  /\ IsHdr(cur_pos) <=> stream[streamPos + 1] = DEL
         /\ PlLen(cur_pos) = stream[streamPos + 2]
         /\ FrameId(cur_pos) = stream[streamPos + HDR_LEN + 1]
         /\ Flags(cur_pos) = stream[streamPos + HDR_LEN + 2]
         /\ PacketEnd(stream, streamPos) = streamPos + usb_frm_len
         /\ stream[streamPos + 2] \in Nat
         /\ streamPos \in 0 .. Len(stream) - DATA_OFFSET
<1>1. /\ cur_pos \in Nat /\ Len(buf) \in Nat /\ streamPos \in Nat
      /\ Len(buf) - cur_pos \in Nat /\ stream \in Seq(Nat) /\ Len(stream) \in Nat
  BY PlaceTypes, InStream
<1>2. /\ 1 \in 1 .. Len(buf) - cur_pos /\ 2 \in 1 .. Len(buf) - cur_pos
      /\ HDR_LEN + 1 \in 1 .. Len(buf) - cur_pos /\ HDR_LEN + 2 \in 1 .. Len(buf) - cur_pos
      /\ cur_pos + (HDR_LEN + 1) = cur_pos + HDR_LEN + 1
      /\ cur_pos + (HDR_LEN + 2) = cur_pos + HDR_LEN + 2
      /\ streamPos + (HDR_LEN + 1) = streamPos + HDR_LEN + 1
      /\ streamPos + (HDR_LEN + 2) = streamPos + HDR_LEN + 2
  BY <1>1, LengthTypes
<1>3. /\ buf[cur_pos + 1] = stream[streamPos + 1]
      /\ buf[cur_pos + 2] = stream[streamPos + 2]
      /\ buf[cur_pos + (HDR_LEN + 1)] = stream[streamPos + (HDR_LEN + 1)]
      /\ buf[cur_pos + (HDR_LEN + 2)] = stream[streamPos + (HDR_LEN + 2)]
  BY <1>2, InStream, Zenon
<1>4. /\ PlLen(cur_pos) = stream[streamPos + 2]
      /\ FrameId(cur_pos) = stream[streamPos + HDR_LEN + 1]
      /\ Flags(cur_pos) = stream[streamPos + HDR_LEN + 2]
  BY <1>2, <1>3, Zenon DEF PlLen, FrameId, Flags
<1>5. IsHdr(cur_pos) <=> stream[streamPos + 1] = DEL
  BY <1>3, Zenon DEF IsHdr
<1>6. streamPos + 2 \in 1 .. Len(stream) /\ streamPos \in 0 .. Len(stream) - DATA_OFFSET
  BY <1>1, InStream, LengthTypes
<1>7. stream[streamPos + 2] \in Nat
  BY <1>1, <1>6, ElementOfSeq, Zenon
<1>8. PacketEnd(stream, streamPos) = streamPos + usb_frm_len
  BY <1>1, <1>4, <1>7 DEF PacketEnd, usb_frm_len
<1> QED BY <1>4, <1>5, <1>6, <1>7, <1>8

\* The headers the look-ahead for ghosts finds are those of the stream, as far as it has
\* arrived.
LEMMA GhostsInStream ==
  ASSUME IInv, BufferInStream
  PROVE  /\ GhostOffsets \subseteq Nat
         /\ \A o \in GhostOffsets : /\ o \in HDR_LEN .. MAX_GHOST_OFF
                                    /\ o + HDR_LEN <= Len(buf) - cur_pos
                                    /\ stream[streamPos + o + 1] = DEL
         /\ \A o \in HDR_LEN .. MAX_GHOST_OFF :
               o + HDR_LEN <= Len(buf) - cur_pos /\ stream[streamPos + o + 1] = DEL =>
                  o \in GhostOffsets
<1>1. cur_pos \in Nat /\ Len(buf) \in Nat /\ streamPos \in Nat /\ Len(buf) - cur_pos \in Nat
  BY PlaceTypes, InStream
<1>2. ASSUME NEW o \in Nat, o + HDR_LEN <= Len(buf) - cur_pos
      PROVE  IsHdr(cur_pos + o) <=> stream[streamPos + o + 1] = DEL
  <2> DEFINE k == o + 1
  <2>1. k \in 1 .. Len(buf) - cur_pos /\ cur_pos + k = cur_pos + o + 1
        /\ streamPos + k = streamPos + o + 1
    BY <1>1, <1>2
  <2> HIDE DEF k
  <2>2. buf[cur_pos + k] = stream[streamPos + k]
    BY <2>1, InStream, Zenon
  <2> QED BY <2>1, <2>2, Zenon DEF IsHdr
<1>3. \A o : o \in HDR_LEN .. Lesser(Len(buf) - cur_pos - HDR_LEN, MAX_GHOST_OFF) <=>
             o \in HDR_LEN .. MAX_GHOST_OFF /\ o + HDR_LEN <= Len(buf) - cur_pos
  BY <1>1 DEF Lesser
<1>4. \A o \in HDR_LEN .. MAX_GHOST_OFF : o \in Nat
  OBVIOUS
<1> QED BY <1>2, <1>3, <1>4, Zenon DEF GhostOffsets

-----------------------------------------------------------------------------
(* What the decoder does at a packet, and between packets.                 *)

packetStarts == Packets[stream]

AmongPackets == /\ WellPacked(stream, packetStarts)
                /\ \A p \in packetStarts : ~(p < streamPos /\ streamPos < PacketEnd(stream, p))

LEMMA PacketTypes ==
  ASSUME AmongPackets
  PROVE  /\ packetStarts \subseteq Nat
         /\ \A p \in packetStarts : /\ p \in Nat /\ stream[p + 2] \in FRAG_HDR_LEN .. MAX_FRAG_LEN
                                    /\ PacketEnd(stream, p) \in Nat
                                    /\ p + DATA_OFFSET <= PacketEnd(stream, p)
                                    /\ PacketEnd(stream, p) <= Len(stream)
BY LengthTypes DEF AmongPackets, WellPacked, IsPacket, PacketEnd

\* A packet is taken for what it is.
LEMMA AtPacket ==
  ASSUME IInv, BufferInStream, AmongPackets, streamPos \in packetStarts,
         cur_pos + DATA_OFFSET <= Len(buf)
  PROVE  IsHdr(cur_pos) /\ GhostOffsets = {} /\ PlLen(cur_pos) \in FRAG_HDR_LEN .. MAX_FRAG_LEN
<1>1. IsPacket(stream, packetStarts, streamPos)
  BY DEF AmongPackets, WellPacked
<1>2. IsHdr(cur_pos) /\ PlLen(cur_pos) \in FRAG_HDR_LEN .. MAX_FRAG_LEN
  BY <1>1, HeaderInStream, Zenon DEF IsPacket
<1>3. ASSUME NEW o \in GhostOffsets PROVE FALSE
  <2>1. /\ o \in HDR_LEN .. MAX_GHOST_OFF /\ o + HDR_LEN <= Len(buf) - cur_pos
        /\ stream[streamPos + o + 1] = DEL
    BY GhostsInStream
  <2>2. streamPos + o + HDR_LEN <= Len(stream)
    BY <2>1, InStream, PlaceTypes
  <2> QED BY <1>1, <2>1, <2>2 DEF IsPacket
<1> QED BY <1>2, <1>3

\* No packet is passed by moving on n.
Passes(n) == \A p \in packetStarts : ~(streamPos <= p /\ p < streamPos + n)

\* Where no packet begins the decoder moves on to the next packet at most, or waits.
LEMMA BetweenPackets ==
  ASSUME IInv, BufferInStream, AmongPackets, streamPos \notin packetStarts, pc = "loop", Decode
  PROVE  LoopExit \/ NeedData \/ \E n \in Nat : Advance(n) /\ Passes(n)
<1>1. streamPos \in Nat /\ Len(buf) - cur_pos \in Nat /\ cur_pos \in Nat /\ Len(buf) \in Nat
  BY InStream, PlaceTypes
<1>2. \A p \in packetStarts : p \in Nat /\ p # streamPos
  BY PacketTypes
<1>3. Passes(1)
  BY <1>1, <1>2 DEF Passes
<1>4. CASE SeekByte \/ RejectLength
  BY <1>3, <1>4 DEF SeekByte, RejectLength
<1>5. CASE LoopExit \/ NeedData
  BY <1>5
<1>6. ASSUME InLoop, IsHdr(cur_pos)
      PROVE  /\ cur_pos + DATA_OFFSET <= Len(buf)
             /\ streamPos \in StaleHeaders(stream, packetStarts)
             /\ IsHarmless(stream, packetStarts, streamPos)
  <2>1. cur_pos + DATA_OFFSET <= Len(buf)
    BY <1>1, <1>6, LengthTypes DEF InLoop
  <2>2. \A p \in packetStarts : ~(p <= streamPos /\ streamPos < PacketEnd(stream, p))
    BY <1>1, <1>2 DEF AmongPackets
  <2>3. streamPos \in StaleHeaders(stream, packetStarts)
    BY <1>6, <2>1, <2>2, HeaderInStream DEF StaleHeaders
  <2> QED BY <2>1, <2>3 DEF AmongPackets, WellPacked
<1>7. CASE SkipGhost
  <2> DEFINE n == Least(GhostOffsets)
  <2>1. InLoop /\ IsHdr(cur_pos) /\ GhostOffsets # {} /\ Advance(n)
    BY <1>7 DEF SkipGhost
  <2>2. n \in GhostOffsets /\ \A o \in GhostOffsets : n <= o
    BY <2>1, GhostsInStream, LeastIsLeast
  <2> HIDE DEF n
  <2>3. n \in Nat /\ n \in HDR_LEN .. MAX_GHOST_OFF /\ n + HDR_LEN <= Len(buf) - cur_pos
    BY <2>2, GhostsInStream
  <2>4. ASSUME NEW p \in packetStarts, streamPos <= p, p < streamPos + n PROVE FALSE
    <3> DEFINE o == p - streamPos
    <3>1. p \in Nat /\ streamPos < p
      BY <1>1, <1>2, <2>4
    <3>2. streamPos + HDR_LEN <= p
      BY <1>6, <2>1, <3>1 DEF IsHarmless
    <3>3. o \in HDR_LEN .. MAX_GHOST_OFF /\ o < n /\ streamPos + o + 1 = p + 1
          /\ o + HDR_LEN <= Len(buf) - cur_pos
      BY <1>1, <2>3, <2>4, <3>1, <3>2
    <3> HIDE DEF o
    <3>4. stream[p + 1] = DEL
      BY DEF AmongPackets, WellPacked, IsPacket
    <3>5. stream[streamPos + o + 1] = DEL
      BY <3>3, <3>4
    <3>6. o \in GhostOffsets
      BY <3>3, <3>5, GhostsInStream
    <3> QED BY <2>2, <2>3, <3>3, <3>6
  <2> QED BY <2>1, <2>3, <2>4 DEF Passes
<1>8. CASE SkipShort
  <2>1. /\ InLoop /\ IsHdr(cur_pos) /\ PlLen(cur_pos) < FRAG_HDR_LEN /\ Advance(usb_frm_len)
    BY <1>8 DEF SkipShort, WholePkt, RealHdr
  <2>2. /\ IsHarmless(stream, packetStarts, streamPos)
        /\ stream[streamPos + 2] < FRAG_HDR_LEN
        /\ PacketEnd(stream, streamPos) = streamPos + usb_frm_len
    BY <1>6, <2>1, HeaderInStream
  <2>3. usb_frm_len \in Nat
    BY <2>1, ReadInBuffer DEF IInv
  <2>4. ASSUME NEW p \in packetStarts, streamPos <= p, p < streamPos + usb_frm_len PROVE FALSE
    <3>1. p \in Nat /\ streamPos < p
      BY <1>1, <1>2, <2>4
    <3>2. streamPos + usb_frm_len <= p
      BY <2>2, <3>1 DEF IsHarmless
    <3> QED BY <1>1, <2>3, <2>4, <3>1, <3>2
  <2> QED BY <2>1, <2>3, <2>4 DEF Passes
<1>9. CASE SkipDevice \/ Boundary
  <2>1. /\ InLoop /\ IsHdr(cur_pos) /\ GhostOffsets = {}
        /\ PlLen(cur_pos) <= MAX_FRAG_LEN /\ FRAG_HDR_LEN <= PlLen(cur_pos)
        /\ usb_frm_len + cur_pos <= Len(buf) /\ PlLen(cur_pos) \in Nat
    BY <1>9, ReadInBuffer DEF SkipDevice, Boundary, Accepted, WholePkt, RealHdr, IInv
  <2>2. /\ IsHarmless(stream, packetStarts, streamPos)
        /\ stream[streamPos + 2] = PlLen(cur_pos)
        /\ PacketEnd(stream, streamPos) = streamPos + usb_frm_len
    BY <1>6, <2>1, HeaderInStream
  <2>3. ~(PacketEnd(stream, streamPos) > Len(stream))
    <3>1. usb_frm_len \in Nat
      BY <2>1 DEF usb_frm_len
    <3>2. streamPos + usb_frm_len <= sent /\ sent \in Nat /\ Len(stream) \in Nat /\ sent <= Len(stream)
      BY <1>1, <2>1, <3>1, InStream, PlaceTypes
    <3> QED BY <1>1, <2>2, <3>1, <3>2
  <2>4. PICK o \in HDR_LEN .. Lesser(stream[streamPos + 2], MAX_GHOST_OFF) :
           stream[streamPos + o + 1] = DEL
    <3>1. stream[streamPos + 2] \in FRAG_HDR_LEN .. MAX_FRAG_LEN
      BY <2>1, <2>2
    <3> QED BY <2>2, <2>3, <3>1 DEF IsHarmless
  <2>5. o \in HDR_LEN .. MAX_GHOST_OFF /\ o <= PlLen(cur_pos)
    BY <2>1, <2>2 DEF Lesser
  <2>6. o + HDR_LEN <= Len(buf) - cur_pos
    BY <1>1, <2>1, <2>5 DEF usb_frm_len
  <2>7. o \in GhostOffsets
    BY <2>4, <2>5, <2>6, GhostsInStream
  <2> QED BY <2>1, <2>7
<1>10. CASE SkipFragment \/ Fragment
  BY <1>10 DEF SkipFragment, Fragment
<1> QED BY <1>4, <1>5, <1>7, <1>8, <1>9, <1>10 DEF Decode

-----------------------------------------------------------------------------
(***************************************************************************)
(* The inductive invariant: the cursor is never inside a packet, and what  *)
(* the decoder has done is what reading the packets before it comes to.    *)
(***************************************************************************)
readSoFar == [building |-> building_frame, id |-> frame_id, soi |-> found_soi,
              eof |-> eof_reached, events |-> events]

ReadBefore == ReadUpTo(stream)[streamPos]
packetHere == PacketAt(stream, streamPos)

ReadsPackets ==
    /\ AmongPackets
    /\ pc # "fragment" => readSoFar = ReadBefore
    /\ pc = "fragment" => /\ streamPos \in packetStarts
                          /\ packetHere.flags # 2
                          /\ readSoFar = Opened(ReadBefore, packetHere)

LEMMA InitReads == WellPackedStreams /\ Init => ReadsPackets
<1> SUFFICES ASSUME WellPackedStreams, Init PROVE ReadsPackets
  OBVIOUS
<1>1. streamPos = 0 /\ pc = "idle" /\ WellPacked(stream, packetStarts)
  <2>1. Len(buf) = 0 /\ sent = 0 /\ cur_pos = 0 /\ pc = "idle" /\ stream \in Streams
    BY EmptySeq DEF Init
  <2>2. streamPos = 0
    BY <2>1 DEF streamPos, bufAt
  <2> QED BY <2>1, <2>2 DEF WellPackedStreams, packetStarts
<1>2. packetStarts \subseteq Nat
  BY <1>1 DEF WellPacked
<1>3. AmongPackets
  BY <1>1, <1>2 DEF AmongPackets
<1>4. ReadUpTo(stream)[0] = Unread
  BY ReadUpToNext
<1>5. readSoFar = Unread
  BY DEF Init, readSoFar, Unread
<1>6. pc # "fragment" /\ ReadBefore = Unread
  BY <1>1, <1>4 DEF ReadBefore
<1>7. readSoFar = ReadBefore
  BY <1>5, <1>6
<1> QED BY <1>3, <1>6, <1>7 DEF ReadsPackets

\* Where the cursor is in the stream does not change when a chunk comes or the consumed
\* part of the buffer goes.
LEMMA SamePos ==
  ASSUME IInv, BufferInStream, Deliver \/ KeepResidual
  PROVE  streamPos' = streamPos
<1>0. /\ stream \in Seq(Nat) /\ sent \in Nat /\ buf \in Seq(Nat) /\ Len(buf) \in Nat
      /\ cur_pos \in Nat /\ cur_pos <= Len(buf) /\ Len(stream) \in Nat /\ sent <= Len(stream)
  BY PlaceTypes
<1>1. CASE Deliver
  <2>1. PICK n \in 1 .. Lesser(Len(stream) - sent, MaxChunk) :
           /\ buf' = buf \o SubSeq(stream, sent + 1, sent + n)
           /\ sent' = sent + n
    BY <1>1 DEF Deliver
  <2> DEFINE e == sent + n
  <2>2. n \in Nat /\ e \in Nat /\ sent <= e /\ e <= Len(stream) /\ e - sent = n
    BY <1>0 DEF Lesser
  <2> HIDE DEF e
  <2>3. SubSeq(stream, sent + 1, e) \in Seq(Nat) /\ Len(SubSeq(stream, sent + 1, e)) = n
    BY <1>0, <2>2, SubSeqPiece, Zenon
  <2> DEFINE chunk == SubSeq(stream, sent + 1, e)
  <2>4. Len(buf') = Len(buf) + n
    <3>1. buf' = buf \o chunk
      BY <2>1 DEF e
    <3>2. chunk \in Seq(Nat) /\ Len(chunk) = n
      BY <2>3
    <3> HIDE DEF chunk
    <3> QED BY <1>0, <3>1, <3>2, ConcatProperties
  <2>5. cur_pos = 0 /\ cur_pos' = 0
    BY <1>1 DEF Deliver, BufferInStream
  <2> HIDE DEF chunk
  <2> QED BY <1>0, <2>1, <2>2, <2>4, <2>5 DEF streamPos, bufAt
<1>2. CASE KeepResidual
  <2>1. buf' = SubSeq(buf, cur_pos + 1, Len(buf)) /\ cur_pos' = 0 /\ sent' = sent
    BY <1>2 DEF KeepResidual
  <2>2. Len(buf) <= Len(buf)
    BY <1>0
  <2>3. Len(buf') = Len(buf) - cur_pos
    BY <1>0, <2>1, <2>2, SubSeqPiece, Zenon
  <2>4. cur_pos' = 0 /\ sent' = sent
    BY <2>1
  <2> QED BY <1>0, <2>3, <2>4 DEF streamPos, bufAt
<1> QED BY <1>1, <1>2

\* On to the next packet at most.
LEMMA MovedOn ==
  ASSUME IInv, BufferInStream, ReadsPackets, pc = "loop", NEW n \in Nat, Advance(n), Passes(n)
  PROVE  ReadsPackets'
<1>1. /\ streamPos \in Nat /\ streamPos' = streamPos + n /\ pc' = "loop"
      /\ UNCHANGED <<stream, packetStarts, readSoFar>>
  BY InStream, PlaceTypes DEF Advance, streamPos, bufAt, packetStarts, readSoFar, decVars
<1>2. packetStarts \subseteq Nat /\ AmongPackets
  BY PacketTypes DEF ReadsPackets
<1>3. ASSUME NEW p \in packetStarts, p < streamPos + n, streamPos + n < PacketEnd(stream, p)
      PROVE  FALSE
  <2>1. p \in Nat /\ PacketEnd(stream, p) \in Nat
    BY <1>2, PacketTypes
  <2>2. p < streamPos
    BY <1>1, <1>3, <2>1 DEF Passes
  <2>3. streamPos < PacketEnd(stream, p)
    BY <1>1, <1>3, <2>1
  <2> QED BY <1>2, <2>2, <2>3 DEF AmongPackets
<1>4. AmongPackets'
  BY <1>1, <1>2, <1>3 DEF AmongPackets, PacketEnd
<1>5. ReadUpTo(stream)[streamPos + n] = ReadUpTo(stream)[streamPos]
  <2>1. \A p \in Packets[stream] : ~(streamPos <= p /\ p < streamPos + n)
    BY DEF Passes, packetStarts
  <2>2. streamPos \in Nat /\ streamPos + n \in Nat /\ streamPos <= streamPos + n
    BY <1>1
  <2> DEFINE b == streamPos + n
  <2> HIDE DEF b
  <2>3. ReadUpTo(stream)[b] = ReadUpTo(stream)[streamPos]
    BY <1>2, <2>1, <2>2, NothingToRead, Zenon DEF b, packetStarts
  <2> QED BY <2>3 DEF b
<1>6. ReadBefore' = ReadBefore
  BY <1>1, <1>5 DEF ReadBefore
<1> QED BY <1>1, <1>4, <1>6 DEF ReadsPackets

\* Over a packet that has been read.
LEMMA PacketRead ==
  ASSUME IInv, BufferInStream, ReadsPackets, streamPos \in packetStarts,
         streamPos' = PacketEnd(stream, streamPos), UNCHANGED stream, pc' # "fragment",
         readSoFar' = Taken(ReadBefore, packetHere)
  PROVE  ReadsPackets'
<1> DEFINE next == PacketEnd(stream, streamPos)
<1>1. /\ packetStarts \subseteq Nat /\ AmongPackets /\ streamPos \in Nat /\ next \in Nat
      /\ streamPos < next /\ streamPos + 1 \in Nat /\ streamPos + 1 <= next
  BY InStream, PacketTypes, LengthTypes DEF ReadsPackets
<1>2. ASSUME NEW p \in packetStarts, streamPos < p PROVE next <= p
  BY <1>2 DEF ReadsPackets, AmongPackets, WellPacked, IsPacket
<1>3. ASSUME NEW p \in packetStarts, p < next, next < PacketEnd(stream, p) PROVE FALSE
  <2>1. p \in Nat /\ PacketEnd(stream, p) \in Nat
    BY <1>1, PacketTypes
  <2>2. p <= streamPos
    BY <1>1, <1>2, <1>3, <2>1
  <2>3. CASE p = streamPos
    BY <1>1, <1>3, <2>3
  <2>4. CASE p < streamPos
    <3>1. streamPos < PacketEnd(stream, p)
      BY <1>1, <1>3, <2>1
    <3> QED BY <1>1, <2>4, <3>1 DEF AmongPackets
  <2> QED BY <1>1, <2>1, <2>2, <2>3, <2>4
<1>4. AmongPackets'
  <2>1. packetStarts' = packetStarts /\ streamPos' = next
    BY DEF packetStarts
  <2>2. WellPacked(stream, packetStarts)
    BY <1>1 DEF AmongPackets
  <2> HIDE DEF next
  <2> QED BY <1>3, <2>1, <2>2, Zenon DEF AmongPackets, packetStarts
<1>5. ReadUpTo(stream)[streamPos + 1] = Taken(ReadBefore, packetHere)
  BY <1>1, ReadUpToNext DEF Past, ReadBefore, packetHere, packetStarts
<1>6. ReadUpTo(stream)[next] = ReadUpTo(stream)[streamPos + 1]
  <2> DEFINE a == streamPos + 1
  <2>1. \A p \in Packets[stream] : ~(a <= p /\ p < next)
    BY <1>1, <1>2 DEF packetStarts
  <2>2. a \in Nat /\ next \in Nat /\ a <= next /\ Packets[stream] \subseteq Nat
    BY <1>1 DEF packetStarts
  <2> HIDE DEF a, next
  <2>3. ReadUpTo(stream)[next] = ReadUpTo(stream)[a]
    BY <2>1, <2>2, NothingToRead, Zenon
  <2> QED BY <2>3 DEF a
<1>7. ReadBefore' = ReadUpTo(stream)[next]
  BY DEF ReadBefore
<1> HIDE DEF next
<1> QED BY <1>4, <1>5, <1>6, <1>7 DEF ReadsPackets

LEMMA SamePiece ==
  ASSUME NEW d \in Seq(Nat), NEW a \in Seq(Nat), NEW b \in Seq(Nat), NEW n \in Nat,
         Len(a) = Len(b), IsPiece(a, d, n), IsPiece(b, d, n)
  PROVE  a = b
<1>1. \A k \in 1 .. Len(a) : a[k] = b[k]
  BY Zenon DEF IsPiece
<1> QED BY <1>1, SeqEqual, Zenon

\* The data of the packet that is in the buffer are the data it has in the stream.
LEMMA DataInStream ==
  ASSUME IInv, BufferInStream, cur_pos + DATA_OFFSET <= cur_pos + usb_frm_len,
         usb_frm_len \in Nat, cur_pos + usb_frm_len <= Len(buf)
  PROVE  /\ video_data = packetHere.data
         /\ FrameId(cur_pos) = packetHere.id
         /\ Flags(cur_pos) = packetHere.flags
<1> DEFINE a == cur_pos + DATA_OFFSET
           b == cur_pos + usb_frm_len
           x == streamPos + DATA_OFFSET
           y == streamPos + usb_frm_len
<1>1. /\ stream \in Seq(Nat) /\ buf \in Seq(Nat) /\ cur_pos \in Nat /\ Len(buf) \in Nat
      /\ bufAt \in Nat /\ streamPos \in Nat /\ DATA_OFFSET \in Nat /\ Len(stream) \in Nat
      /\ streamPos + (Len(buf) - cur_pos) <= Len(stream)
  BY PlaceTypes, InStream, LengthTypes DEF BufferInStream
<1>2. a \in Nat /\ b \in Nat /\ a <= b /\ b <= Len(buf)
  BY <1>1
<1>3. x \in Nat /\ y \in Nat /\ x <= y /\ y <= Len(stream) /\ bufAt + a = x /\ y - x = b - a
  BY <1>1 DEF streamPos
<1>4. /\ FrameId(cur_pos) = packetHere.id /\ Flags(cur_pos) = packetHere.flags
      /\ PacketEnd(stream, streamPos) = y
  <2>1. cur_pos + DATA_OFFSET <= Len(buf)
    BY <1>1
  <2> QED BY <2>1, HeaderInStream DEF packetHere, PacketAt
<1>5. video_data = SubSeq(buf, a + 1, b) /\ packetHere.data = SubSeq(stream, x + 1, y)
  BY <1>4 DEF video_data, packetHere, PacketAt
<1> HIDE DEF a, b, x, y
<1>6. /\ SubSeq(buf, a + 1, b) \in Seq(Nat) /\ Len(SubSeq(buf, a + 1, b)) = b - a
      /\ IsPiece(SubSeq(buf, a + 1, b), buf, a)
  BY <1>1, <1>2, SubSeqPiece, Zenon
<1>7. /\ SubSeq(stream, x + 1, y) \in Seq(Nat) /\ Len(SubSeq(stream, x + 1, y)) = y - x
      /\ IsPiece(SubSeq(stream, x + 1, y), stream, x)
  BY <1>1, <1>3, SubSeqPiece, Zenon
<1>8. IsPiece(SubSeq(buf, a + 1, b), stream, bufAt + a)
  BY <1>1, <1>2, <1>6, PieceOfPiece, Zenon DEF BufferInStream
<1>9. SubSeq(buf, a + 1, b) = SubSeq(stream, x + 1, y)
  BY <1>1, <1>3, <1>6, <1>7, <1>8, SamePiece, Zenon
<1> QED BY <1>4, <1>5, <1>9

\* A boundary and a fragment do to what has been read what Opened and Shown say.
LEMMA BoundaryOpens ==
  ASSUME Boundary, FrameId(cur_pos) = packetHere.id
  PROVE  readSoFar' = Opened(readSoFar, packetHere)
<1>1. CASE ~NewFrame
  BY <1>1 DEF Boundary, NewFrame, readSoFar, Opened, decVars
<1>2. CASE NewFrame
  BY <1>2 DEF Boundary, NewFrame, readSoFar, Opened
<1> QED BY <1>1, <1>2

LEMMA FragmentShows ==
  ASSUME SkipFragment \/ Fragment, video_data = packetHere.data,
         Flags(cur_pos) = packetHere.flags
  PROVE  readSoFar' = Shown(readSoFar, packetHere)
<1> DEFINE data == packetHere.data
           begins == MarkerAt(data, SOI, SOI_MAX_POS)
           img == IF found_soi THEN data ELSE SubSeq(data, Least(begins) + 1, Len(data))
           ends == MarkerAt(img, EOI, Len(img))
           shown == Append(events, Event("fragment",
                       IF ends = {} THEN img ELSE SubSeq(img, 1, Least(ends) + 2)))
           over == eof_reached \/ packetHere.flags # 0 \/ (~found_soi /\ begins = {})
<1>1. Shown(readSoFar, packetHere) =
         IF over THEN readSoFar
         ELSE [readSoFar EXCEPT !.soi = TRUE,
                       !.eof = (ends # {}),
                       !.events = IF ends = {} THEN shown
                                  ELSE Append(shown, Event("complete", <<>>))]
  BY DEF Shown, readSoFar
<1>2. soiAt = begins /\ image = img /\ eoiAt = ends
  BY DEF soiAt, image, eoiAt
<1>3. NoImage <=> over
  BY <1>2 DEF NoImage
<1>4. withFragment = shown
  BY <1>2 DEF withFragment, imgFragment
<1> HIDE DEF shown, ends, over
<1>5. CASE SkipFragment
  <2>1. over /\ readSoFar' = readSoFar
    BY <1>3, <1>5 DEF SkipFragment, Advance, readSoFar, decVars
  <2> QED BY <1>1, <2>1
<1>6. CASE Fragment
  <2>1. /\ ~over /\ found_soi' = TRUE /\ eof_reached' = (ends # {})
        /\ events' = IF ends = {} THEN shown ELSE Append(shown, Event("complete", <<>>))
        /\ UNCHANGED <<building_frame, frame_id>>
    BY <1>2, <1>3, <1>4, <1>6 DEF Fragment
  <2> QED BY <1>1, <2>1 DEF readSoFar
<1> QED BY <1>5, <1>6

LEMMA WaitReads ==
  ASSUME ReadsPackets, streamPos' = streamPos, pc # "fragment", pc' # "fragment",
         UNCHANGED <<stream, decVars, events>>
  PROVE  ReadsPackets'
<1>1. UNCHANGED <<readSoFar, ReadBefore, packetStarts>>
  BY DEF readSoFar, decVars, ReadBefore, packetStarts
<1>2. AmongPackets'
  BY <1>1 DEF ReadsPackets, AmongPackets, PacketEnd
<1> QED BY <1>1, <1>2 DEF ReadsPackets

LEMMA DecodeReads ==
  ASSUME IInv, BufferInStream, ReadsPackets, Decode
  PROVE  ReadsPackets'
<1>1. /\ streamPos \in Nat /\ Len(buf) - cur_pos \in Nat /\ cur_pos \in Nat /\ Len(buf) \in Nat
      /\ bufAt \in Int
  BY InStream, PlaceTypes
<1>2. AmongPackets
  BY DEF ReadsPackets
<1>3. ASSUME cur_pos + DATA_OFFSET <= Len(buf), usb_frm_len \in Nat,
             usb_frm_len >= DATA_OFFSET, cur_pos + usb_frm_len <= Len(buf)
      PROVE  /\ video_data = packetHere.data
             /\ FrameId(cur_pos) = packetHere.id
             /\ Flags(cur_pos) = packetHere.flags
             /\ PacketEnd(stream, streamPos) = streamPos + usb_frm_len
  <2>1. cur_pos + DATA_OFFSET <= cur_pos + usb_frm_len
    BY <1>1, <1>3, LengthTypes
  <2> QED BY <1>3, <2>1, DataInStream, HeaderInStream
<1>4. CASE LoopExit \/ NeedData
  <2>1. /\ UNCHANGED <<stream, sent, buf, cur_pos, decVars, events>> /\ pc = "loop" /\ pc' = "return"
    BY <1>4 DEF LoopExit, NeedData, RealHdr, InLoop
  <2> QED BY <2>1, WaitReads DEF streamPos, bufAt
<1>5. CASE pc = "loop" /\ streamPos \notin packetStarts
  <2>1. LoopExit \/ NeedData \/ \E n \in Nat : Advance(n) /\ Passes(n)
    BY <1>2, <1>5, BetweenPackets
  <2> QED BY <1>4, <1>5, <2>1, MovedOn
<1>6. CASE pc = "loop" /\ streamPos \in packetStarts /\ ~LoopExit /\ ~NeedData
  <2>1. InLoop /\ cur_pos + DATA_OFFSET <= Len(buf)
    <3>1. InLoop
      BY <1>6 DEF Decode, SeekByte, SkipGhost, RejectLength, SkipShort, SkipDevice, Boundary,
                  Accepted, WholePkt, RealHdr, SkipFragment, Fragment
    <3> QED BY <1>1, <3>1, LengthTypes DEF InLoop
  <2>2. IsHdr(cur_pos) /\ GhostOffsets = {} /\ PlLen(cur_pos) \in FRAG_HDR_LEN .. MAX_FRAG_LEN
    BY <1>2, <1>6, <2>1, AtPacket
  <2>3. PlLen(cur_pos) \in Nat /\ ~(PlLen(cur_pos) > MAX_FRAG_LEN) /\ ~(PlLen(cur_pos) < FRAG_HDR_LEN)
    BY <2>2
  <2>4. SkipDevice \/ Boundary
    BY <1>6, <2>2, <2>3 DEF Decode, SeekByte, SkipGhost, RejectLength, SkipShort, SkipFragment, Fragment
  <2>5. /\ usb_frm_len \in Nat /\ usb_frm_len >= DATA_OFFSET /\ cur_pos + usb_frm_len <= Len(buf)
    <3>1. usb_frm_len + cur_pos <= Len(buf)
      BY <2>4 DEF SkipDevice, Boundary, Accepted, WholePkt
    <3> QED BY <1>1, <2>2, <2>3, <3>1, LengthTypes DEF usb_frm_len
  <2>6. readSoFar = ReadBefore
    BY <1>6 DEF ReadsPackets
  <2>7. CASE SkipDevice
    <3>1. /\ UNCHANGED <<stream, sent, buf, decVars, events>> /\ pc' = "loop"
          /\ cur_pos' = cur_pos + usb_frm_len /\ Flags(cur_pos) = 2
      BY <2>7 DEF SkipDevice, Advance
    <3>2. streamPos' = PacketEnd(stream, streamPos)
      <4>1. streamPos' = streamPos + usb_frm_len
        BY <1>1, <2>5, <3>1 DEF streamPos, bufAt
      <4> QED BY <1>3, <2>1, <2>5, <4>1
    <3>3. Taken(ReadBefore, packetHere) = ReadBefore
      BY <1>3, <2>1, <2>5, <3>1 DEF Taken
    <3>4. readSoFar' = Taken(ReadBefore, packetHere)
      BY <2>6, <3>1, <3>3 DEF readSoFar, decVars
    <3> QED BY <1>6, <3>1, <3>2, <3>4, PacketRead
  <2>8. CASE Boundary
    <3>1. /\ UNCHANGED <<stream, sent, buf, cur_pos>> /\ pc' = "fragment" /\ Flags(cur_pos) # 2
      BY <2>8 DEF Boundary, Accepted
    <3>2. readSoFar' = Opened(ReadBefore, packetHere) /\ packetHere.flags # 2
      BY <1>3, <2>1, <2>5, <2>6, <2>8, <3>1, BoundaryOpens
    <3>3. UNCHANGED <<streamPos, packetStarts, ReadBefore, packetHere>>
      BY <3>1 DEF streamPos, bufAt, packetStarts, ReadBefore, packetHere
    <3>4. AmongPackets'
      BY <1>2, <3>1, <3>3 DEF AmongPackets, PacketEnd
    <3> QED BY <1>6, <3>1, <3>2, <3>3, <3>4 DEF ReadsPackets
  <2> QED BY <2>4, <2>7, <2>8
<1>7. CASE pc = "fragment"
  <2>1. /\ cur_pos + DATA_OFFSET <= Len(buf) /\ usb_frm_len \in Nat /\ usb_frm_len >= DATA_OFFSET
        /\ cur_pos + usb_frm_len <= Len(buf)
    BY <1>7, LengthTypes DEF IInv, AtFragment, CursorInBuffer, usb_frm_len
  <2>2. SkipFragment \/ Fragment
    BY <1>7 DEF Decode, LoopExit, SeekByte, SkipGhost, RejectLength, NeedData, SkipShort, SkipDevice,
                Boundary, Accepted, WholePkt, RealHdr, InLoop
  <2>3. /\ UNCHANGED <<stream, sent, buf>> /\ cur_pos' = cur_pos + usb_frm_len /\ pc' = "loop"
    BY <2>2 DEF SkipFragment, Fragment, Advance
  <2>4. streamPos' = PacketEnd(stream, streamPos)
    <3>1. streamPos' = streamPos + usb_frm_len
      BY <1>1, <2>1, <2>3 DEF streamPos, bufAt
    <3> QED BY <1>3, <2>1, <3>1
  <2>5. /\ streamPos \in packetStarts /\ packetHere.flags # 2
        /\ readSoFar = Opened(ReadBefore, packetHere)
    BY <1>7 DEF ReadsPackets
  <2>6. readSoFar' = Shown(readSoFar, packetHere)
    BY <1>3, <2>1, <2>2, FragmentShows
  <2>7. readSoFar' = Taken(ReadBefore, packetHere)
    BY <2>5, <2>6 DEF Taken
  <2> QED BY <2>3, <2>4, <2>5, <2>7, PacketRead
<1> QED
  <2>1. pc = "loop" \/ pc = "fragment"
    BY DEF Decode, LoopExit, SeekByte, SkipGhost, RejectLength, NeedData, SkipShort, SkipDevice,
           Boundary, Accepted, WholePkt, RealHdr, InLoop, SkipFragment, Fragment
  <2> QED BY <1>4, <1>5, <1>6, <1>7, <2>1

LEMMA NextReads ==
  ASSUME IInv, BufferInStream, ReadsPackets, [Next]_vars
  PROVE  ReadsPackets'
<1>1. CASE Decode
  BY <1>1, DecodeReads
<1>2. CASE Deliver \/ KeepResidual
  <2>1. /\ UNCHANGED <<stream, decVars, events>> /\ pc # "fragment" /\ pc' # "fragment"
    BY <1>2 DEF Deliver, KeepResidual
  <2> QED BY <1>2, <2>1, SamePos, WaitReads
<1>3. CASE UNCHANGED vars
  <2>1. UNCHANGED <<stream, pc, readSoFar, streamPos>>
    BY <1>3 DEF vars, readSoFar, streamPos, bufAt, decVars
  <2>2. UNCHANGED <<packetStarts, ReadBefore, packetHere>>
    BY <2>1 DEF packetStarts, ReadBefore, packetHere
  <2>3. AmongPackets'
    BY <2>1, <2>2 DEF ReadsPackets, AmongPackets, PacketEnd
  <2> QED BY <2>1, <2>2, <2>3 DEF ReadsPackets
<1> QED BY <1>1, <1>2, <1>3 DEF Next, Finished

-----------------------------------------------------------------------------
(* What the decoder waits for when it returns is not there.                *)

Starved ==
    \/ sent - streamPos < DATA_OFFSET
    \/ /\ streamPos + DATA_OFFSET <= sent
       /\ stream[streamPos + 1] = DEL
       /\ stream[streamPos + 2] <= MAX_FRAG_LEN
       /\ PacketEnd(stream, streamPos) > sent
       /\ \A o \in HDR_LEN .. MAX_GHOST_OFF :
             streamPos + o + HDR_LEN <= sent => stream[streamPos + o + 1] # DEL

StarvedWhenDone == pc \in {"idle", "return"} => Starved

LEMMA NextStarves ==
  ASSUME IInv, BufferInStream, StarvedWhenDone, [Next]_vars
  PROVE  StarvedWhenDone'
<1>1. /\ streamPos \in Nat /\ Len(buf) - cur_pos \in Nat /\ cur_pos \in Nat /\ Len(buf) \in Nat
      /\ sent \in Nat /\ streamPos + (Len(buf) - cur_pos) = sent
  BY InStream, PlaceTypes
<1>2. ASSUME LoopExit \/ NeedData PROVE Starved
  <2>1. CASE LoopExit
    BY <1>1, <2>1, LengthTypes DEF LoopExit, Starved
  <2>2. CASE NeedData
    <3>1. /\ Len(buf) - cur_pos >= DATA_OFFSET /\ IsHdr(cur_pos) /\ GhostOffsets = {}
          /\ PlLen(cur_pos) <= MAX_FRAG_LEN /\ usb_frm_len + cur_pos > Len(buf)
      BY <2>2 DEF NeedData, RealHdr, InLoop
    <3>2. cur_pos + DATA_OFFSET <= Len(buf) /\ streamPos + DATA_OFFSET <= sent
      BY <1>1, <3>1, LengthTypes
    <3>3. /\ stream[streamPos + 1] = DEL /\ stream[streamPos + 2] <= MAX_FRAG_LEN
          /\ PacketEnd(stream, streamPos) = streamPos + usb_frm_len /\ PlLen(cur_pos) \in Nat
      BY <3>1, <3>2, HeaderInStream
    <3>4. PacketEnd(stream, streamPos) > sent
      BY <1>1, <3>1, <3>3 DEF usb_frm_len
    <3>5. ASSUME NEW o \in HDR_LEN .. MAX_GHOST_OFF, streamPos + o + HDR_LEN <= sent
          PROVE  stream[streamPos + o + 1] # DEL
      <4>1. o + HDR_LEN <= Len(buf) - cur_pos
        BY <1>1, <3>5
      <4> QED BY <3>1, <4>1, GhostsInStream
    <3> QED BY <3>2, <3>3, <3>4, <3>5 DEF Starved
  <2> QED BY <1>2, <2>1, <2>2
<1>3. ASSUME Starved, UNCHANGED <<stream, sent, streamPos>> PROVE Starved'
  BY <1>3 DEF Starved, PacketEnd
<1>4. CASE LoopExit \/ NeedData
  <2>1. UNCHANGED <<stream, sent, streamPos>>
    BY <1>4 DEF LoopExit, NeedData, streamPos, bufAt
  <2> QED BY <1>2, <1>3, <1>4, <2>1 DEF StarvedWhenDone
<1>5. CASE KeepResidual
  <2>1. UNCHANGED <<stream, sent, streamPos>> /\ pc = "return"
    BY <1>5, SamePos DEF KeepResidual
  <2> QED BY <1>3, <2>1 DEF StarvedWhenDone
<1>6. CASE UNCHANGED vars
  <2>1. UNCHANGED <<stream, sent, streamPos, pc>>
    BY <1>6 DEF vars, streamPos, bufAt
  <2> QED BY <1>3, <2>1 DEF StarvedWhenDone
<1>7. CASE pc' \in {"loop", "fragment"}
  BY <1>7 DEF StarvedWhenDone
<1> QED
  BY <1>4, <1>5, <1>6, <1>7
     DEF Next, Finished, Decode, Deliver, SeekByte, SkipGhost, RejectLength, SkipShort, SkipDevice,
         Boundary, SkipFragment, Fragment, Advance

LEMMA InitStarved == Init => StarvedWhenDone
<1> SUFFICES ASSUME Init PROVE Starved
  BY DEF StarvedWhenDone
<1>1. Len(buf) = 0 /\ sent = 0 /\ cur_pos = 0
  BY EmptySeq DEF Init
<1> QED BY <1>1, LengthTypes DEF Starved, streamPos, bufAt

\* When all has been delivered, no packet is left behind the cursor.
LEMMA NoneLeft ==
  ASSUME IInv, BufferInStream, AmongPackets, Starved, sent = Len(stream),
         NEW p \in packetStarts
  PROVE  p < streamPos
<1> SUFFICES ASSUME streamPos <= p PROVE FALSE
  BY InStream, PacketTypes
<1>1. /\ streamPos \in Nat /\ p \in Nat /\ sent \in Nat /\ PacketEnd(stream, p) \in Nat
      /\ p + DATA_OFFSET <= PacketEnd(stream, p) /\ PacketEnd(stream, p) <= sent
      /\ packetStarts \subseteq Nat
  BY InStream, PlaceTypes, PacketTypes
<1>2. /\ streamPos + DATA_OFFSET <= sent /\ stream[streamPos + 1] = DEL
      /\ stream[streamPos + 2] <= MAX_FRAG_LEN /\ PacketEnd(stream, streamPos) > sent
      /\ \A o \in HDR_LEN .. MAX_GHOST_OFF :
            streamPos + o + HDR_LEN <= sent => stream[streamPos + o + 1] # DEL
  <2>1. ~(sent - streamPos < DATA_OFFSET)
    BY <1>1, LengthTypes
  <2> QED BY <2>1 DEF Starved
<1>3. streamPos \notin packetStarts
  <2>1. ASSUME streamPos \in packetStarts PROVE FALSE
    <3>1. PacketEnd(stream, streamPos) \in Nat /\ PacketEnd(stream, streamPos) <= sent
      BY <2>1, PacketTypes
    <3> QED BY <1>1, <1>2, <3>1
  <2> QED BY <2>1
<1>4. streamPos < p
  BY <1>1, <1>3
<1>5. streamPos \in StaleHeaders(stream, packetStarts)
  <2>1. \A q \in packetStarts : ~(q <= streamPos /\ streamPos < PacketEnd(stream, q))
    BY <1>1, <1>3 DEF AmongPackets
  <2>2. streamPos \in 0 .. Len(stream) - DATA_OFFSET
    BY <1>1, <1>2, LengthTypes
  <2> QED BY <1>2, <2>1, <2>2 DEF StaleHeaders
<1>6. IsHarmless(stream, packetStarts, streamPos)
  BY <1>5 DEF AmongPackets, WellPacked
<1>7. stream[streamPos + 2] \in Nat
  <2>1. streamPos + 2 \in 1 .. Len(stream) /\ stream \in Seq(Nat)
    BY <1>1, <1>2, LengthTypes, PlaceTypes
  <2> QED BY <2>1, ElementOfSeq, Zenon
<1>8. stream[streamPos + 2] \in FRAG_HDR_LEN .. MAX_FRAG_LEN
  <2>1. streamPos + HDR_LEN + stream[streamPos + 2] > sent
    BY <1>2 DEF PacketEnd
  <2> QED BY <1>1, <1>2, <1>7, <2>1, LengthTypes
<1>9. ~(p < streamPos)
  BY <1>1, <1>4
<1>10. PICK o \in HDR_LEN .. Lesser(stream[streamPos + 2], MAX_GHOST_OFF) :
          streamPos + o + HDR_LEN <= Len(stream) /\ stream[streamPos + o + 1] = DEL
  BY <1>6, <1>8, <1>9 DEF IsHarmless
<1>11. o \in HDR_LEN .. MAX_GHOST_OFF
  BY <1>7 DEF Lesser
<1> QED BY <1>2, <1>10, <1>11

LEMMA SpecReads ==
  ASSUME WellPackedStreams
  PROVE  Spec => [](IInv /\ BufferInStream /\ ReadsPackets /\ StarvedWhenDone)
<1>1. Init => ReadsPackets
  BY InitReads
<1>2. IInv /\ BufferInStream /\ ReadsPackets /\ [Next]_vars => ReadsPackets'
  BY NextReads
<1>3. IInv /\ BufferInStream /\ StarvedWhenDone /\ [Next]_vars => StarvedWhenDone'
  BY NextStarves
<1>4. IInv /\ IInv' /\ PlaceInv /\ [Next]_vars => PlaceInv'
  BY NextPlaced
<1>5. PlaceInv => BufferInStream
  BY DEF PlaceInv
<1> QED BY <1>1, <1>2, <1>3, <1>4, <1>5, InitStarved, InitPlaced, SpecIInv, PTL DEF Spec

\* In every state, not only in the last, what the decoder has made of the stream is what the
\* packets it has passed come to: neither chunks, nor padding, nor stale headers show.
CallbacksArePackets == pc = "idle" => readSoFar = ReadBefore

\* Of a stream made of packets, whenever the decoder waits for a chunk.
THEOREM ReadsPacketByPacket ==
  ASSUME WellPackedStreams
  PROVE  Spec => []CallbacksArePackets
<1>1. ReadsPackets => CallbacksArePackets
  BY DEF ReadsPackets, CallbacksArePackets
<1> QED BY <1>1, SpecReads, PTL

\* When all of a stream made of packets has been sent and taken, the callbacks are those of
\* its packets: they do not depend on how it was cut.
THEOREM CutsDoNotShow ==
  ASSUME WellPackedStreams
  PROVE  Spec => []ChunkingInvisible
<1>1. IInv /\ BufferInStream /\ ReadsPackets /\ StarvedWhenDone => ChunkingInvisible
  <2> SUFFICES ASSUME IInv, BufferInStream, ReadsPackets, StarvedWhenDone,
                      pc = "idle", sent = Len(stream)
               PROVE  events = ReadUpTo(stream)[Len(stream)].events
    BY DEF ChunkingInvisible
  <2>1. AmongPackets /\ Starved /\ readSoFar = ReadBefore
    BY DEF ReadsPackets, StarvedWhenDone
  <2>2. \A p \in packetStarts : p \in Nat /\ p < streamPos
    BY <2>1, NoneLeft, PacketTypes
  <2>3. streamPos \in Nat /\ Len(stream) \in Nat /\ streamPos <= Len(stream)
    BY InStream, PlaceTypes
  <2>4. \A p \in Packets[stream] : ~(streamPos <= p /\ p < Len(stream))
    BY <2>2, <2>3 DEF packetStarts
  <2>5. Packets[stream] \subseteq Nat
    BY <2>2 DEF packetStarts
  <2>6. ReadUpTo(stream)[Len(stream)] = ReadBefore
    BY <2>3, <2>4, <2>5, NothingToRead, Zenon DEF ReadBefore
  <2>7. readSoFar.events = events
    BY DEF readSoFar
  <2> QED BY <2>1, <2>6, <2>7
<1> QED BY <1>1, SpecReads, PTL

-----------------------------------------------------------------------------
(***************************************************************************)
(* UseeplusVideoStream is UpDecoder with callbacks, so what is proved of   *)
(* the decoder holds of it, and the input buffer stays within what is      *)
(* reserved, for every stream and every way of cutting it.                 *)
(***************************************************************************)
USE BuffersAssumption

\* Every behaviour of the video stream is one of the decoder.
THEOREM StreamIsDecoder == VideoSpec => Spec
<1>1. VideoInit => Init
  BY DEF VideoInit
<1>2. [VideoNext]_<<vars, streamVars>> => [Next]_vars
  BY DEF VideoNext, SendBegins, SendDecodes, SendReturns, VideoFinished, Next, Finished
<1> QED BY <1>1, <1>2, PTL DEF VideoSpec, Spec

\* The shortest residual that cannot be left.
Packet == HDR_LEN + FRAG_HDR_LEN + MAX_FRAG_LEN

\* At most FOUR_KILOBYTES of consumed bytes, a residual and a chunk.
Parts ==
    /\ readOffset \in 0 .. FOUR_KILOBYTES
    /\ cur_pos = 0 \/ pc # "idle"
    /\ Len(buf) < Packet + MaxChunk
    /\ pc = "idle" => Len(buf) < Packet

LEMMA PartsInit == VideoInit => Parts
BY DEF VideoInit, Init, Parts, Packet

\* A chunk is added to a residual, and a residual is left when send() returns.
LEMMA PartsStep ==
  ASSUME IInv, IInv', Parts, [VideoNext]_<<vars, streamVars>>
  PROVE  Parts'
<1>1. /\ buf \in Seq(Nat) /\ buf' \in Seq(Nat) /\ Len(buf) \in Nat /\ Len(buf') \in Nat
      /\ cur_pos \in Nat /\ cur_pos' \in Nat
  BY LenProperties DEF IInv, TypeOK
<1>2. CASE SendBegins
  <2>1. PICK n \in 1 .. Lesser(Len(stream) - sent, MaxChunk) :
            buf' = buf \o SubSeq(stream, sent + 1, sent + n)
    BY <1>2 DEF SendBegins, Deliver
  <2>2. /\ stream \in Seq(Nat) /\ Len(stream) \in Nat /\ sent \in Nat
        /\ n \in Nat /\ sent + n <= Len(stream) /\ n <= MaxChunk
    BY LenProperties DEF IInv, TypeOK, Lesser
  <2>3. SubSeq(stream, sent + 1, sent + n) \in Seq(Nat)
        /\ Len(SubSeq(stream, sent + 1, sent + n)) = n
    BY <2>2, SubSeqProperties
  <2>4. Len(buf') = Len(buf) + n
    BY <1>1, <2>1, <2>3, ConcatProperties
  <2>5. pc = "idle" /\ pc' = "loop" /\ readOffset' = readOffset
    BY <1>2 DEF SendBegins, Deliver, streamVars
  <2> QED BY <1>1, <2>2, <2>4, <2>5 DEF Parts, Packet
<1>3. CASE SendDecodes
  <2>1. UNCHANGED <<buf, readOffset>> /\ pc' # "idle"
    BY <1>3 DEF SendDecodes, Decode, LoopExit, SeekByte, SkipGhost, RejectLength, NeedData,
          SkipShort, SkipDevice, Boundary, SkipFragment, Fragment, Advance
  <2> QED BY <2>1 DEF Parts
<1>4. CASE SendReturns
  <2>1. pc = "return" /\ pc' = "idle" /\ cur_pos' = 0
    BY <1>4 DEF SendReturns, KeepResidual
  <2>2. Len(buf') < Packet
    BY <1>1, <2>1 DEF IInv, ResidualBounded, Packet
  <2>3. readOffset' \in 0 .. FOUR_KILOBYTES
    BY <1>1, <1>4 DEF SendReturns, ReadOffsetAfter, Parts
  <2> QED BY <1>1, <2>1, <2>2, <2>3 DEF Parts, Packet
<1>5. CASE VideoFinished \/ UNCHANGED <<vars, streamVars>>
  BY <1>5 DEF VideoFinished, Finished, vars, streamVars, Parts
<1> QED BY <1>2, <1>3, <1>4, <1>5 DEF VideoNext

\* send() never outgrows what the constructor reserved (useeplus_video_stream.cpp:15),
\* if a chunk is no larger than INPUT_RESERVE allows, whatever the bytes are.
THEOREM NeverReallocated == VideoSpec => []InputReserved
<1>1. IInv /\ Parts => InputReserved
  BY LenProperties DEF IInv, TypeOK, Parts, Packet, InputReserved
<1>2. VideoSpec => []IInv
  BY StreamIsDecoder, SpecIInv, PTL
<1>3. IInv /\ IInv' /\ Parts /\ [VideoNext]_<<vars, streamVars>> => Parts'
  BY PartsStep
<1> QED BY <1>1, <1>2, <1>3, PartsInit, PTL DEF VideoSpec

-----------------------------------------------------------------------------
(***************************************************************************)
(* The callbacks fill slots whose storage is used again; to the readers    *)
(* they are pictures as PictureAssembly has them.                          *)
(***************************************************************************)
SlotType == [storage : Seq(Nat), activeSize : Nat]
SelfType == [frameActive : BOOLEAN, claimed : Nat \cup {-1}, published : Seq(Seq(Nat)),
             slots : [Slots -> SlotType]]

\* What counts of a slot lies in its storage.
Filled(slot) == slot.activeSize <= Len(slot.storage)

SelfOk(s) ==
    /\ s \in SelfType
    /\ s.frameActive => s.claimed \in Nat
    /\ \A i \in Slots : Filled(s.slots[i])

\* The content of the slot that is being filled.
PictureOf(s) == Contents(s.slots[Claimed(s)])

LEMMA ClaimedIsSlot ==
  ASSUME NEW s, s.claimed \in Nat
  PROVE  Claimed(s) \in Slots
BY DEF Claimed, Slots

LEMMA ContentsIs ==
  ASSUME NEW slot \in SlotType, Filled(slot)
  PROVE  /\ Contents(slot) \in Seq(Nat)
         /\ Len(Contents(slot)) = slot.activeSize
         /\ \A k \in 1 .. slot.activeSize : Contents(slot)[k] = slot.storage[k]
<1> DEFINE st == slot.storage
           n == slot.activeSize
<1>1. st \in Seq(Nat) /\ n \in Nat /\ Len(st) \in Nat /\ n <= Len(st)
  BY LenProperties DEF SlotType, Filled
<1>2. Contents(slot) = SubSeq(st, 1, n)
  BY DEF Contents
<1> HIDE DEF st, n
<1>3. /\ SubSeq(st, 1, n) \in Seq(Nat) /\ Len(SubSeq(st, 1, n)) = n
      /\ IsPiece(SubSeq(st, 1, n), st, 0)
  BY <1>1, PrefixPiece, Zenon
<1>4. \A k \in 1 .. n : SubSeq(st, 1, n)[k] = st[k]
  BY <1>1, <1>3 DEF IsPiece
<1> QED BY <1>2, <1>3, <1>4 DEF st, n

\* A slot that has been cleared holds nothing, whatever its storage holds.
LEMMA ClearedSlot ==
  ASSUME NEW slot \in SlotType, Filled(slot)
  PROVE  clear(slot) \in SlotType /\ Filled(clear(slot)) /\ Contents(clear(slot)) = <<>>
<1>1. /\ clear(slot) \in SlotType
      /\ clear(slot).activeSize = 0 /\ clear(slot).storage = slot.storage
  BY DEF clear, SlotType
<1>2. Filled(clear(slot))
  BY <1>1, LenProperties DEF Filled, SlotType
<1>3. Contents(clear(slot)) \in Seq(Nat) /\ Len(Contents(clear(slot))) = 0
  BY <1>1, <1>2, ContentsIs
<1> QED BY <1>1, <1>2, <1>3, EmptySeq

\* Content is put behind what counts, over what does not.
LEMMA InsertedContent ==
  ASSUME NEW slot \in SlotType, Filled(slot), NEW data \in Seq(Nat)
  PROVE  /\ insertContent(slot, data) \in SlotType /\ Filled(insertContent(slot, data))
         /\ Contents(insertContent(slot, data)) = Contents(slot) \o data
<1> DEFINE old == slot.storage
           n == slot.activeSize
           end == n + Len(data)
           head == SubSeq(old, 1, n)
           rest == SubSeq(old, end + 1, Len(old))
           new == insertContent(slot, data)
<1>1. /\ old \in Seq(Nat) /\ n \in Nat /\ Len(old) \in Nat /\ n <= Len(old)
      /\ Len(data) \in Nat /\ end \in Nat
  BY LenProperties DEF SlotType, Filled
<1>2. head = Contents(slot)
  BY DEF Contents
<1>3. /\ head \in Seq(Nat) /\ Len(head) = n
      /\ \A k \in 1 .. n : head[k] = old[k]
  BY <1>2, ContentsIs
<1>4. rest \in Seq(Nat) /\ Len(rest) \in Nat
  <2>1. rest \in Seq(Nat)
    BY <1>1, SubSeqType, SMTT(60)
  <2> QED BY <2>1, LenProperties
<1>5. new.storage = head \o data \o rest /\ new.activeSize = end
      /\ new = [storage |-> head \o data \o rest, activeSize |-> end]
  BY DEF insertContent
<1> HIDE DEF head, rest, new, old
<1>6. /\ head \o data \in Seq(Nat) /\ Len(head \o data) = end
  BY <1>1, <1>3, ConcatProperties, ZenonT(60)
<1>7. /\ (head \o data) \o rest \in Seq(Nat) /\ Len((head \o data) \o rest) = end + Len(rest)
      /\ \A k \in 1 .. end : ((head \o data) \o rest)[k] = (head \o data)[k]
  <2> DEFINE front == head \o data
  <2>1. /\ front \o rest \in Seq(Nat) /\ Len(front \o rest) = Len(front) + Len(rest)
        /\ \A k \in 1 .. Len(front) + Len(rest) :
              (front \o rest)[k] = IF k <= Len(front) THEN front[k] ELSE rest[k - Len(front)]
    <3> HIDE DEF front
    <3> QED BY <1>4, <1>6, ConcatProperties DEF front
  <2>2. Len(front) = end
    BY <1>6
  <2> HIDE DEF front, end
  <2>3. \A k \in 1 .. end : (front \o rest)[k] = front[k]
    BY <1>1, <1>4, <2>1, <2>2
  <2> QED BY <2>1, <2>2, <2>3 DEF front
<1>8. new \in SlotType /\ Filled(new)
  BY <1>1, <1>4, <1>5, <1>7 DEF SlotType, Filled
<1>9. Contents(new) = head \o data
  <2> DEFINE c == Contents(new)
             front == head \o data
  <2>1. c \in Seq(Nat) /\ Len(c) = end /\ \A k \in 1 .. end : c[k] = new.storage[k]
    BY <1>5, <1>8, ContentsIs
  <2>2. front \in Seq(Nat) /\ Len(front) = end /\ \A k \in 1 .. end : new.storage[k] = front[k]
    BY <1>5, <1>6, <1>7
  <2> HIDE DEF c, front, end
  <2>3. c = front
    <3>1. \A k \in 1 .. Len(c) : c[k] = front[k]
      BY <2>1, <2>2
    <3> QED BY <2>1, <2>2, <3>1, SeqEqual
  <2> QED BY <2>3 DEF c, front
<1> QED BY <1>2, <1>8, <1>9 DEF new

\* A slot of the stream that is replaced by one as good.
LEMMA ReplaceSlot ==
  ASSUME NEW s, SelfOk(s), NEW i \in Slots, NEW slot \in SlotType, Filled(slot)
  PROVE  LET t == [s EXCEPT !.slots[i] = slot]
         IN  /\ SelfOk(t) /\ t.frameActive = s.frameActive /\ t.claimed = s.claimed
             /\ t.published = s.published /\ t.slots[i] = slot
<1> DEFINE t == [s EXCEPT !.slots[i] = slot]
           m == [s.slots EXCEPT ![i] = slot]
<1>1. s \in SelfType /\ s.slots \in [Slots -> SlotType]
  BY DEF SelfOk, SelfType
<1>2. t = [s EXCEPT !.slots = m]
  BY <1>1 DEF SelfType
<1>3. /\ m \in [Slots -> SlotType] /\ m[i] = slot
      /\ \A j \in Slots : j # i => m[j] = s.slots[j]
  BY <1>1
<1> HIDE DEF m
<1>4. /\ t \in SelfType /\ t.slots = m /\ t.frameActive = s.frameActive
      /\ t.claimed = s.claimed /\ t.published = s.published
  BY <1>1, <1>2, <1>3 DEF SelfType
<1> HIDE DEF t
<1>5. \A j \in Slots : Filled(t.slots[j])
  BY <1>3, <1>4 DEF SelfOk
<1>6. t.frameActive => t.claimed \in Nat
  BY <1>4 DEF SelfOk
<1>7. SelfOk(t)
  BY <1>4, <1>5, <1>6 DEF SelfOk
<1> QED BY <1>3, <1>4, <1>7 DEF t

LEMMA StartCallback ==
  ASSUME NEW s, SelfOk(s), ~s.frameActive
  PROVE  LET t == onFrameStart(s)
         IN  /\ SelfOk(t) /\ t.frameActive /\ t.published = s.published
             /\ PictureOf(t) = <<>>
<1> DEFINE c == claim(s)
           i == Claimed(c)
           slot == clear(c.slots[i])
           u == [c EXCEPT !.slots[i] = slot]
           t == onFrameStart(s)
<1>1. s \in SelfType
  BY DEF SelfOk
<1>2. /\ c \in SelfType /\ c.claimed \in Nat /\ c.slots = s.slots
      /\ c.published = s.published /\ c.frameActive = s.frameActive
  <2> DEFINE n == s.claimed + 1
  <2>1. n \in Nat
    <3>1. s.claimed \in Nat \/ s.claimed = -1
      BY <1>1 DEF SelfType
    <3> QED BY <3>1
  <2>2. c = [s EXCEPT !.claimed = n]
    BY <1>1 DEF claim, SelfType
  <2> HIDE DEF n, c
  <2> QED BY <1>1, <2>1, <2>2 DEF SelfType
<1>3. SelfOk(c)
  BY <1>2 DEF SelfOk
<1>4. i \in Slots
  BY <1>2, ClaimedIsSlot
<1>5. c.slots[i] \in SlotType /\ Filled(c.slots[i])
  BY <1>2, <1>3, <1>4 DEF SelfOk, SelfType
<1>6. t = [u EXCEPT !.frameActive = TRUE]
  BY <1>1, <1>2, <1>4 DEF onFrameStart, SelfType
<1> HIDE DEF c, i
<1>7. slot \in SlotType /\ Filled(slot) /\ Contents(slot) = <<>>
  BY <1>5, ClearedSlot
<1> HIDE DEF slot
<1>8. /\ SelfOk(u) /\ u.claimed = c.claimed /\ u.published = c.published /\ u.slots[i] = slot
  BY <1>3, <1>4, <1>7, ReplaceSlot, SMTT(60)
<1> HIDE DEF u, t
<1>9. /\ t \in SelfType /\ t.frameActive /\ t.claimed = u.claimed /\ t.published = u.published
      /\ t.slots = u.slots
  BY <1>6, <1>8 DEF SelfOk, SelfType
<1>10. SelfOk(t)
  BY <1>2, <1>8, <1>9 DEF SelfOk
<1>11. Claimed(t) = i
  BY <1>8, <1>9 DEF Claimed, i
<1>12. PictureOf(t) = <<>>
  BY <1>7, <1>8, <1>9, <1>11 DEF PictureOf
<1> QED BY <1>2, <1>8, <1>9, <1>10, <1>12 DEF t

LEMMA PayloadCallback ==
  ASSUME NEW s, SelfOk(s), s.frameActive, NEW data \in Seq(Nat)
  PROVE  LET t == onVideoPayload(s, data)
         IN  /\ SelfOk(t) /\ t.frameActive /\ t.published = s.published
             /\ PictureOf(t) = PictureOf(s) \o data
<1> DEFINE i == Claimed(s)
           slot == insertContent(s.slots[i], data)
           u == [s EXCEPT !.slots[i] = slot]
<1>1. s \in SelfType /\ s.claimed \in Nat
  BY DEF SelfOk
<1>2. i \in Slots
  BY <1>1, ClaimedIsSlot
<1>3. s.slots[i] \in SlotType /\ Filled(s.slots[i])
  BY <1>1, <1>2 DEF SelfOk, SelfType
<1>4. onVideoPayload(s, data) = u
  BY <1>1, <1>2 DEF onVideoPayload, SelfType
<1> HIDE DEF i
<1>5. slot \in SlotType /\ Filled(slot) /\ Contents(slot) = Contents(s.slots[i]) \o data
  BY <1>3, InsertedContent
<1> HIDE DEF slot
<1>6. /\ SelfOk(u) /\ u.frameActive = s.frameActive /\ u.claimed = s.claimed
      /\ u.published = s.published /\ u.slots[i] = slot
  BY <1>2, <1>5, ReplaceSlot, ZenonT(60)
<1> HIDE DEF u
<1>7. PictureOf(u) = PictureOf(s) \o data
  <2>1. Claimed(u) = i
    BY <1>6 DEF Claimed, i
  <2> QED BY <1>5, <1>6, <2>1 DEF PictureOf, i
<1> QED BY <1>4, <1>6, <1>7

\* What is published is what the slot holds.
LEMMA PublishSlot ==
  ASSUME NEW s, SelfOk(s), s.claimed \in Nat
  PROVE  LET t == [publish(s) EXCEPT !.frameActive = FALSE]
         IN  /\ SelfOk(t) /\ ~t.frameActive
             /\ t.published = Append(s.published, PictureOf(s))
             /\ PictureOf(s) \in Seq(Nat)
<1> DEFINE pic == PictureOf(s)
           t == [publish(s) EXCEPT !.frameActive = FALSE]
           all == Append(s.published, pic)
<1>1. s \in SelfType /\ Claimed(s) \in Slots
  BY ClaimedIsSlot DEF SelfOk
<1>2. pic \in Seq(Nat)
  BY <1>1, ContentsIs DEF SelfOk, SelfType, PictureOf
<1>3. all \in Seq(Seq(Nat))
  BY <1>1, <1>2, AppendProperties DEF SelfType
<1>4. publish(s) = [s EXCEPT !.published = all]
  BY <1>1 DEF publish, PictureOf, SelfType
<1> HIDE DEF all, pic
<1>5. /\ t \in SelfType /\ t.frameActive = FALSE /\ t.published = all /\ t.slots = s.slots
  BY <1>1, <1>3, <1>4 DEF SelfType
<1> HIDE DEF t
<1>6. SelfOk(t)
  BY <1>5 DEF SelfOk
<1> QED BY <1>2, <1>5, <1>6 DEF t, all, pic

LEMMA CompleteCallback ==
  ASSUME NEW s, SelfOk(s), s.frameActive
  PROVE  LET t == onFrameComplete(s)
         IN  /\ SelfOk(t) /\ ~t.frameActive
             /\ t.published = Append(s.published, PictureOf(s))
             /\ PictureOf(s) \in Seq(Nat)
<1>1. s.claimed \in Nat
  BY DEF SelfOk
<1>2. onFrameComplete(s) = [publish(s) EXCEPT !.frameActive = FALSE]
  BY DEF onFrameComplete
<1> QED BY <1>1, <1>2, PublishSlot

LEMMA IncompleteCallback ==
  ASSUME NEW s, SelfOk(s), s.frameActive
  PROVE  LET t == onFrameIncomplete(s)
         IN  /\ SelfOk(t) /\ ~t.frameActive
             /\ t.published = Append(s.published, <<>>)
<1> DEFINE i == Claimed(s)
           slot == clear(s.slots[i])
           u == [s EXCEPT !.slots[i] = slot]
<1>1. s \in SelfType /\ s.claimed \in Nat
  BY DEF SelfOk
<1>2. i \in Slots
  BY <1>1, ClaimedIsSlot
<1>3. s.slots[i] \in SlotType /\ Filled(s.slots[i])
  BY <1>1, <1>2 DEF SelfOk, SelfType
<1>4. onFrameIncomplete(s) = [publish(u) EXCEPT !.frameActive = FALSE]
  BY <1>1, <1>2 DEF onFrameIncomplete, SelfType
<1> HIDE DEF i
<1>5. slot \in SlotType /\ Filled(slot) /\ Contents(slot) = <<>>
  BY <1>3, ClearedSlot
<1> HIDE DEF slot
<1>6. /\ SelfOk(u) /\ u.claimed = s.claimed /\ u.published = s.published /\ u.slots[i] = slot
  BY <1>2, <1>5, ReplaceSlot
<1> HIDE DEF u
<1>7. PictureOf(u) = <<>>
  <2>1. Claimed(u) = i
    BY <1>6 DEF Claimed, i
  <2> QED BY <1>5, <1>6, <2>1 DEF PictureOf
<1> QED BY <1>1, <1>4, <1>6, <1>7, PublishSlot

-----------------------------------------------------------------------------
(* The five things a turn of the decoder may do to the frames.             *)

\* A frame has started and its end has not been seen.
IsOpen == building_frame /\ ~eof_reached

Nothing == UNCHANGED <<events, IsOpen>>

Opens ==
    /\ ~IsOpen /\ IsOpen'
    /\ \E e \in Events : e.ev = "start" /\ events' = Append(events, e)

Interrupts ==
    /\ IsOpen /\ IsOpen'
    /\ \E e, f \in Events : /\ e.ev = "incomplete" /\ f.ev = "start"
                            /\ events' = Append(Append(events, e), f)

Extends ==
    /\ IsOpen /\ IsOpen'
    /\ \E f \in Events : /\ f.ev = "fragment" /\ FragmentOk(f.arg, ~found_soi, FALSE)
                         /\ events' = Append(events, f)

Completes ==
    /\ IsOpen /\ ~IsOpen'
    /\ \E f, c \in Events : /\ f.ev = "fragment" /\ FragmentOk(f.arg, ~found_soi, TRUE)
                            /\ c.ev = "complete"
                            /\ events' = Append(Append(events, f), c)

LEMMA TurnKinds ==
  ASSUME IInv, Decode
  PROVE  Nothing \/ Opens \/ Interrupts \/ Extends \/ Completes
<1>1. building_frame \in BOOLEAN /\ eof_reached \in BOOLEAN /\ found_soi \in BOOLEAN
  BY DEF IInv, TypeOK
<1>2. CASE Boundary
  <2>1. CASE ~NewFrame /\ UNCHANGED <<decVars, events>>
    BY <2>1 DEF Nothing, IsOpen, decVars
  <2>2. CASE NewFrame /\ ~UNCHANGED <<decVars, events>>
    <3> DEFINE e == Event("incomplete", <<>>)
               f == Event("start", <<FrameId(cur_pos)>>)
    <3>1. e \in Events /\ f \in Events
      <4>1. TypeOK /\ InLoop
        BY <1>2 DEF IInv, Boundary, Accepted, WholePkt, RealHdr
      <4>2. FrameId(cur_pos) \in Nat
        BY <4>1, ReadInBuffer
      <4> QED BY <4>2, EmptySeq DEF Event, Events, Kinds
    <3>2. e.ev = "incomplete" /\ f.ev = "start"
      BY DEF Event
    <3>3. /\ events' = Append(IF building_frame /\ ~eof_reached
                                THEN Append(events, e) ELSE events, f)
          /\ building_frame' = TRUE /\ eof_reached' = FALSE
      BY <1>2, <2>2 DEF Boundary
    <3> HIDE DEF e, f
    <3>4. IsOpen'
      BY <3>3 DEF IsOpen
    <3>5. CASE IsOpen
      <4>1. events' = Append(Append(events, e), f)
        BY <3>3, <3>5 DEF IsOpen
      <4> QED BY <3>1, <3>2, <3>4, <3>5, <4>1 DEF Interrupts
    <3>6. CASE ~IsOpen
      <4>1. events' = Append(events, f)
        BY <3>3, <3>6 DEF IsOpen
      <4> QED BY <3>1, <3>2, <3>4, <3>6, <4>1 DEF Opens
    <3> QED BY <3>5, <3>6
  <2> QED BY <1>2, <2>1, <2>2 DEF Boundary
<1>3. CASE Fragment
  <2> DEFINE f == Event("fragment", imgFragment)
             c == Event("complete", <<>>)
  <2>1. pc = "fragment" /\ ~NoImage /\ IsOpen
    BY <1>3 DEF IInv, Fragment, AtFragment, NoImage, IsOpen
  <2>2. /\ f \in Events /\ f.ev = "fragment" /\ f.arg = imgFragment
        /\ c \in Events /\ c.ev = "complete"
    BY <2>1, FragmentType, EmptySeq DEF Event, Events, Kinds
  <2>3. FragmentOk(imgFragment, ~found_soi, eoiAt # {})
    BY <2>1, FragmentPiece
  <2>4. withFragment = Append(events, f)
    BY DEF withFragment
  <2>5. IsOpen' <=> eoiAt = {}
    BY <1>3, <2>1, Zenon DEF Fragment, IsOpen
  <2>6. events' = IF eoiAt = {} THEN Append(events, f) ELSE Append(Append(events, f), c)
    BY <1>3, <2>4 DEF Fragment
  <2> HIDE DEF f, c
  <2>7. CASE eoiAt = {}
    <3>1. FragmentOk(f.arg, ~found_soi, FALSE)
      BY <1>1, <2>2, <2>3, <2>7, FragmentOkElsewhere, Zenon
    <3> QED BY <2>1, <2>2, <2>5, <2>6, <2>7, <3>1 DEF Extends
  <2>8. CASE eoiAt # {}
    <3>1. FragmentOk(f.arg, ~found_soi, TRUE)
      BY <1>1, <2>2, <2>3, <2>8, FragmentOkElsewhere, Zenon
    <3>2. events' = Append(Append(events, f), c) /\ ~IsOpen'
      BY <2>5, <2>6, <2>8
    <3> QED BY <2>1, <2>2, <3>1, <3>2, Zenon DEF Completes
  <2> QED BY <2>7, <2>8
<1>4. CASE ~Boundary /\ ~Fragment
  <2>1. UNCHANGED <<events, building_frame, eof_reached>>
    BY <1>4 DEF Decode, LoopExit, SeekByte, SkipGhost, RejectLength, NeedData, SkipShort,
                SkipDevice, SkipFragment, Advance, decVars
  <2> QED BY <2>1 DEF Nothing, IsOpen
<1> QED BY <1>2, <1>3, <1>4

\* A frame is open for the stream exactly when it is for the decoder.
SelfInv == SelfOk(self) /\ (self.frameActive <=> IsOpen)

\* A turn of send()'s decoder, as far as the readers are concerned.
LEMMA TurnAssembles ==
  ASSUME IInv, SelfInv, SendDecodes
  PROVE  /\ SelfInv'
         /\ \/ Nothing /\ UNCHANGED self
            \/ /\ Opens
               /\ PictureOf(self') = <<>> /\ self'.published = self.published
            \/ /\ Interrupts
               /\ PictureOf(self') = <<>>
               /\ self'.published = Append(self.published, <<>>)
            \/ /\ Extends
               /\ PictureOf(self') = PictureOf(self) \o events'[Len(events) + 1].arg
               /\ self'.published = self.published
            \/ /\ Completes
               /\ self'.published =
                     Append(self.published, PictureOf(self) \o events'[Len(events) + 1].arg)
<1> DEFINE n == Len(events)
<1>1. /\ events \in Seq(Events) /\ n \in Nat
      /\ SelfOk(self) /\ (self.frameActive <=> IsOpen)
      /\ self.frameActive \in BOOLEAN
  BY LenProperties DEF IInv, TypeOK, SelfInv, SelfOk, SelfType
<1>2. /\ Decode
      /\ Len(events') = n => self' = self
      /\ Len(events') = n + 1 => self' = Callback(self, events'[n + 1])
      /\ Len(events') = n + 2 =>
            self' = Callback(Callback(self, events'[n + 1]), events'[n + 2])
  BY <1>1, SMTT(60) DEF SendDecodes
<1> HIDE DEF n
<1>3. \A e \in Events : /\ Len(Append(events, e)) = n + 1
                        /\ Append(events, e) \in Seq(Events)
                        /\ Append(events, e)[n + 1] = e
  BY <1>1, AppendProperties DEF n
<1>4. \A e, f \in Events : /\ Len(Append(Append(events, e), f)) = n + 2
                           /\ Append(Append(events, e), f)[n + 1] = e
                           /\ Append(Append(events, e), f)[n + 2] = f
  <2> TAKE e, f \in Events
  <2> DEFINE m == Append(events, e)
  <2>1. Len(m) = n + 1 /\ m \in Seq(Events) /\ m[n + 1] = e
    BY <1>3
  <2> HIDE DEF m
  <2>2. /\ Len(Append(m, f)) = n + 2 /\ Append(m, f)[n + 1] = m[n + 1]
        /\ Append(m, f)[n + 2] = f
    <3>1. /\ Len(Append(m, f)) = Len(m) + 1
          /\ \A i \in 1 .. Len(m) : Append(m, f)[i] = m[i]
          /\ Append(m, f)[Len(m) + 1] = f
      BY <2>1, AppendProperties
    <3> QED BY <1>1, <2>1, <3>1
  <2> QED BY <2>1, <2>2 DEF m
<1>5. CASE Nothing
  BY <1>1, <1>2, <1>5 DEF Nothing, SelfInv, n
<1>6. CASE Opens
  <2>1. PICK e \in Events : e.ev = "start" /\ events' = Append(events, e)
    BY <1>6 DEF Opens
  <2>2. self' = onFrameStart(self)
    BY <1>2, <1>3, <2>1 DEF Callback
  <2>3. /\ SelfOk(self') /\ self'.frameActive /\ self'.published = self.published
        /\ PictureOf(self') = <<>>
    BY <1>1, <1>6, <2>2, StartCallback DEF Opens
  <2> QED BY <1>6, <2>3 DEF Opens, SelfInv
<1>7. CASE Interrupts
  <2>1. PICK e, f \in Events : /\ e.ev = "incomplete" /\ f.ev = "start"
                               /\ events' = Append(Append(events, e), f)
    BY <1>7 DEF Interrupts
  <2> DEFINE u == onFrameIncomplete(self)
  <2>2. self' = onFrameStart(u)
    <3>1. Callback(self, e) = u
      BY <2>1 DEF Callback
    <3>2. self' = Callback(Callback(self, e), f)
      <4>1. /\ Len(events') = n + 2 /\ events'[n + 1] = e /\ events'[n + 2] = f
        BY <1>4, <2>1, ZenonT(60)
      <4> QED BY <1>2, <4>1, Zenon
    <3>3. \A s : Callback(s, f) = onFrameStart(s)
      BY <2>1 DEF Callback
    <3> QED BY <3>1, <3>2, <3>3, Zenon
  <2>3. /\ SelfOk(u) /\ ~u.frameActive
        /\ u.published = Append(self.published, <<>>)
    BY <1>1, <1>7, IncompleteCallback DEF Interrupts
  <2> HIDE DEF u
  <2>4. /\ SelfOk(self') /\ self'.frameActive /\ self'.published = u.published
        /\ PictureOf(self') = <<>>
    BY <2>2, <2>3, StartCallback
  <2> QED BY <1>7, <2>3, <2>4 DEF Interrupts, SelfInv
<1>8. CASE Extends
  <2>1. PICK f \in Events : f.ev = "fragment" /\ events' = Append(events, f)
    BY <1>8 DEF Extends
  <2>2. self' = onVideoPayload(self, f.arg) /\ f = events'[n + 1]
    BY <1>2, <1>3, <2>1 DEF Callback
  <2>3. f.arg \in Seq(Nat)
    BY DEF Events
  <2>4. /\ SelfOk(self') /\ self'.frameActive /\ self'.published = self.published
        /\ PictureOf(self') = PictureOf(self) \o f.arg
    BY <1>1, <1>8, <2>2, <2>3, PayloadCallback DEF Extends
  <2> QED BY <1>8, <2>2, <2>4 DEF Extends, SelfInv, n
<1>9. CASE Completes
  <2>1. PICK f, c \in Events : /\ f.ev = "fragment" /\ c.ev = "complete"
                               /\ events' = Append(Append(events, f), c)
    BY <1>9 DEF Completes
  <2> DEFINE u == onVideoPayload(self, f.arg)
  <2>2. self' = onFrameComplete(u) /\ f = events'[n + 1]
    <3>1. Callback(self, f) = u
      BY <2>1 DEF Callback
    <3>2. self' = Callback(Callback(self, f), c) /\ f = events'[n + 1]
      <4>1. /\ Len(events') = n + 2 /\ events'[n + 1] = f /\ events'[n + 2] = c
        BY <1>4, <2>1, ZenonT(60)
      <4> QED BY <1>2, <4>1, Zenon
    <3>3. \A s : Callback(s, c) = onFrameComplete(s)
      BY <2>1 DEF Callback
    <3> QED BY <3>1, <3>2, <3>3, Zenon
  <2>3. f.arg \in Seq(Nat)
    BY DEF Events
  <2>4. /\ SelfOk(u) /\ u.frameActive /\ u.published = self.published
        /\ PictureOf(u) = PictureOf(self) \o f.arg
    BY <1>1, <1>9, <2>3, PayloadCallback DEF Completes
  <2> HIDE DEF u
  <2>5. /\ SelfOk(self') /\ ~self'.frameActive
        /\ self'.published = Append(u.published, PictureOf(u))
    BY <2>2, <2>4, CompleteCallback
  <2> QED BY <1>9, <2>2, <2>4, <2>5 DEF Completes, SelfInv, n
<1> QED BY <1>2, <1>5, <1>6, <1>7, <1>8, <1>9, TurnKinds

-----------------------------------------------------------------------------
(* The stream implements PictureAssembly.                                  *)

\* What a sequence of callbacks has got longer by.
LEMMA MadeOne ==
  ASSUME events \in Seq(Events), NEW e \in Events, events' = Append(events, e)
  PROVE  /\ Assembly!Made(<<e.ev>>)
         /\ Assembly!New(1) = e /\ events'[Len(events) + 1] = e
<1>1. /\ Len(events) \in Nat /\ Len(events') = Len(events) + 1
      /\ \A i \in 1 .. Len(events) : events'[i] = events[i]
      /\ events'[Len(events) + 1] = e
  BY AppendProperties, LenProperties
<1>2. Assembly!New(1) = e
  BY <1>1 DEF Assembly!New
<1>3. Len(<<e.ev>>) = 1 /\ <<e.ev>>[1] = e.ev
  OBVIOUS
<1>4. \A i \in 1 .. 1 : i = 1
  OBVIOUS
<1> QED BY <1>1, <1>2, <1>3, <1>4 DEF Assembly!Made

LEMMA MadeTwo ==
  ASSUME events \in Seq(Events), NEW e \in Events, NEW f \in Events,
         events' = Append(Append(events, e), f)
  PROVE  /\ Assembly!Made(<<e.ev, f.ev>>)
         /\ Assembly!New(1) = e /\ events'[Len(events) + 1] = e
<1> DEFINE m == Append(events, e)
<1>1. /\ m \in Seq(Events)
      /\ Len(events) \in Nat /\ Len(m) = Len(events) + 1
      /\ \A i \in 1 .. Len(events) : m[i] = events[i]
      /\ m[Len(events) + 1] = e
  BY AppendProperties, LenProperties
<1>2. events' = Append(m, f)
  OBVIOUS
<1> HIDE DEF m
<1>3. /\ Len(events') = Len(m) + 1
      /\ \A i \in 1 .. Len(m) : events'[i] = m[i]
      /\ events'[Len(m) + 1] = f
  BY <1>1, <1>2, AppendProperties
<1>4. /\ Len(events') = Len(events) + 2
      /\ \A i \in 1 .. Len(events) : events'[i] = events[i]
      /\ events'[Len(events) + 1] = e /\ events'[Len(events) + 2] = f
  BY <1>1, <1>3
<1>5. Assembly!New(1) = e /\ Assembly!New(2) = f
  BY <1>4 DEF Assembly!New
<1>6. Len(<<e.ev, f.ev>>) = 2 /\ <<e.ev, f.ev>>[1] = e.ev /\ <<e.ev, f.ev>>[2] = f.ev
  OBVIOUS
<1>7. \A i \in 1 .. 2 : i = 1 \/ i = 2
  OBVIOUS
<1> QED BY <1>4, <1>5, <1>6, <1>7 DEF Assembly!Made

LEMMA DecodeImplements ==
  ASSUME IInv, SelfInv, SendDecodes
  PROVE  [Assembly!Next]_(Assembly!vars)
<1> DEFINE picture == IF self.frameActive THEN Contents(self.slots[Claimed(self)]) ELSE <<>>
<1>1. events \in Seq(Events) /\ (self.frameActive <=> IsOpen) /\ self.frameActive \in BOOLEAN
  BY DEF IInv, TypeOK, SelfInv, SelfOk, SelfType
<1>2. (self.frameActive <=> IsOpen)' /\ self'.frameActive \in BOOLEAN
  BY TurnAssembles DEF SelfInv, SelfOk, SelfType
<1>3. picture = IF self.frameActive THEN PictureOf(self) ELSE <<>>
  BY DEF PictureOf
<1>4. picture' = IF self'.frameActive THEN PictureOf(self') ELSE <<>>
  BY DEF PictureOf, Contents, Claimed
<1> HIDE DEF picture
<1>5. CASE Nothing /\ UNCHANGED self
  <2>1. UNCHANGED <<events, self.frameActive, picture, self.published>>
    BY <1>3, <1>4, <1>5 DEF Nothing
  <2> QED BY <2>1 DEF Assembly!vars, picture
<1>6. CASE Opens /\ PictureOf(self') = <<>> /\ self'.published = self.published
  <2>1. PICK e \in Events : e.ev = "start" /\ events' = Append(events, e)
    BY <1>6 DEF Opens
  <2>2. Assembly!Made(<<"start">>)
    BY <1>1, <2>1, MadeOne
  <2>3. ~self.frameActive /\ self'.frameActive
    BY <1>1, <1>2, <1>6 DEF Opens
  <2>4. UNCHANGED <<picture, self.published>>
    BY <1>3, <1>4, <1>6, <2>3
  <2> QED BY <2>2, <2>3, <2>4 DEF Assembly!Next, Assembly!Start, picture
<1>7. CASE /\ Interrupts
           /\ PictureOf(self') = <<>>
           /\ self'.published = Append(self.published, <<>>)
  <2>1. PICK e, f \in Events : /\ e.ev = "incomplete" /\ f.ev = "start"
                               /\ events' = Append(Append(events, e), f)
    BY <1>7 DEF Interrupts
  <2>2. Assembly!Made(<<"incomplete", "start">>)
    BY <1>1, <2>1, MadeTwo
  <2>3. self.frameActive /\ self'.frameActive /\ self'.frameActive = self.frameActive
    BY <1>1, <1>2, <1>7 DEF Interrupts
  <2>4. picture' = <<>>
    BY <1>4, <1>7
  <2> QED BY <1>7, <2>2, <2>3, <2>4 DEF Assembly!Next, Assembly!Interrupt, picture
<1>8. CASE /\ Extends
           /\ PictureOf(self') = PictureOf(self) \o events'[Len(events) + 1].arg
           /\ self'.published = self.published
  <2>1. PICK f \in Events : f.ev = "fragment" /\ events' = Append(events, f)
    BY <1>8 DEF Extends
  <2>2. /\ Assembly!Made(<<"fragment">>) /\ Assembly!New(1) = f
        /\ events'[Len(events) + 1] = f
    BY <1>1, <2>1, MadeOne
  <2>3. self.frameActive /\ self'.frameActive = self.frameActive
    BY <1>1, <1>2, <1>8 DEF Extends
  <2>4. picture' = picture \o Assembly!New(1).arg
    BY <1>3, <1>4, <1>8, <2>2, <2>3
  <2> QED BY <1>8, <2>2, <2>3, <2>4 DEF Assembly!Next, Assembly!Extend, picture
<1>9. CASE /\ Completes
           /\ self'.published =
                 Append(self.published, PictureOf(self) \o events'[Len(events) + 1].arg)
  <2>1. PICK f, c \in Events : /\ f.ev = "fragment" /\ c.ev = "complete"
                               /\ events' = Append(Append(events, f), c)
    BY <1>9 DEF Completes
  <2>2. /\ Assembly!Made(<<"fragment", "complete">>) /\ Assembly!New(1) = f
        /\ events'[Len(events) + 1] = f
    BY <1>1, <2>1, MadeTwo
  <2>3. self.frameActive /\ ~self'.frameActive
    BY <1>1, <1>2, <1>9 DEF Completes
  <2>4. picture' = <<>> /\ picture = PictureOf(self)
    BY <1>3, <1>4, <2>3
  <2>5. self'.published = Append(self.published, picture \o Assembly!New(1).arg)
    BY <1>9, <2>2, <2>4
  <2> QED BY <2>2, <2>3, <2>4, <2>5 DEF Assembly!Next, Assembly!Complete, picture
<1> QED BY <1>5, <1>6, <1>7, <1>8, <1>9, TurnAssembles

\* The steps of the stream that make no callback.
LEMMA NoCallback ==
  ASSUME [VideoNext]_<<vars, streamVars>>, ~SendDecodes
  PROVE  UNCHANGED <<events, building_frame, eof_reached, found_soi, self>>
BY DEF VideoNext, SendBegins, SendReturns, VideoFinished, Deliver, KeepResidual, Finished,
       vars, streamVars, decVars

LEMMA InitSelfInv == VideoInit => SelfInv
<1> SUFFICES ASSUME VideoInit PROVE SelfInv
  OBVIOUS
<1> DEFINE st == [n \in 1 .. PREALLOCATED |-> 0]
           slot == [storage |-> st, activeSize |-> 0]
<1>1. st \in Seq(Nat) /\ Len(st) \in Nat
  <2>1. st \in Seq(Nat)
    OBVIOUS
  <2> QED BY <2>1, LenProperties
<1>2. self = [frameActive |-> FALSE, claimed |-> -1, published |-> <<>>,
              slots |-> [i \in Slots |-> slot]]
  BY DEF VideoInit
<1> HIDE DEF st
<1>3. slot \in SlotType /\ Filled(slot)
  BY <1>1 DEF SlotType, Filled
<1> HIDE DEF slot
<1>4. self \in SelfType /\ ~self.frameActive /\ \A i \in Slots : self.slots[i] = slot
  <2>1. <<>> \in Seq(Seq(Nat))
    BY EmptySeq
  <2>2. [i \in Slots |-> slot] \in [Slots -> SlotType]
    BY <1>3
  <2> QED BY <1>2, <2>1, <2>2 DEF SelfType
<1>5. ~IsOpen
  BY DEF VideoInit, Init, IsOpen
<1> QED BY <1>3, <1>4, <1>5 DEF SelfInv, SelfOk

LEMMA SelfInvStep ==
  ASSUME IInv, SelfInv, [VideoNext]_<<vars, streamVars>>
  PROVE  SelfInv'
<1>1. CASE SendDecodes
  BY <1>1, TurnAssembles
<1>2. CASE ~SendDecodes
  BY <1>2, NoCallback DEF SelfInv, IsOpen
<1> QED BY <1>1, <1>2

LEMMA StreamIInv == VideoSpec => [](IInv /\ SelfInv)
<1>1. VideoSpec => []IInv
  BY StreamIsDecoder, SpecIInv, PTL
<1>2. IInv /\ SelfInv /\ [VideoNext]_<<vars, streamVars>> => SelfInv'
  BY SelfInvStep
<1> QED BY <1>1, <1>2, InitSelfInv, PTL DEF VideoSpec

\* Every variable that UseeplusVideoStream adds to the decoder's keeps its type.
THEOREM VideoTypeCorrect == VideoSpec => []VideoTypeOK
<1>1. IInv /\ SelfInv /\ Parts => VideoTypeOK
  BY DEF SelfInv, SelfOk, SelfType, SlotType, Parts, VideoTypeOK
<1>2. IInv /\ IInv' /\ Parts /\ [VideoNext]_<<vars, streamVars>> => Parts'
  BY PartsStep
<1> QED BY <1>1, <1>2, StreamIInv, PartsInit, PTL DEF VideoSpec

\* Whatever the stream holds and however it is cut, the readers of the ring are shown, frame
\* by frame and in order, what the fragments of that frame add up to, or nothing for one
\* that was interrupted: no byte of another frame that the slot has held.
THEOREM StreamAssembles == VideoSpec => ImplementsAssembly
<1>1. VideoInit => Assembly!Init
  BY DEF VideoInit, Init, Assembly!Init
<1>2. IInv /\ SelfInv /\ [VideoNext]_<<vars, streamVars>> => [Assembly!Next]_(Assembly!vars)
  <2> SUFFICES ASSUME IInv, SelfInv, [VideoNext]_<<vars, streamVars>>
               PROVE  [Assembly!Next]_(Assembly!vars)
    OBVIOUS
  <2>1. CASE SendDecodes
    BY <2>1, DecodeImplements
  <2>2. CASE ~SendDecodes
    BY <2>2, NoCallback DEF Assembly!vars, Contents, Claimed
  <2> QED BY <2>1, <2>2
<1> QED BY <1>1, <1>2, StreamIInv, PTL DEF VideoSpec, ImplementsAssembly, Assembly!Spec

-----------------------------------------------------------------------------
(***************************************************************************)
(* The pictures that are published are images.  The inductive invariant    *)
(* says of the picture being put together that it has begun, once it has   *)
(* a fragment.                                                             *)
(***************************************************************************)
Begun(pic) == Len(pic) >= 2 /\ pic[1] = FF /\ pic[2] = SOI

PictureBegun ==
    self.frameActive => /\ LastEvent = "start" => PictureOf(self) = <<>>
                        /\ LastEvent = "fragment" => Begun(PictureOf(self))

\* What a further fragment makes of a picture that has begun, or of an empty one that it
\* begins.
LEMMA ExtendedPicture ==
  ASSUME NEW pic \in Seq(Nat), NEW data \in Seq(Nat), NEW first \in BOOLEAN, NEW last \in BOOLEAN,
         FragmentOk(data, first, last),
         first => pic = <<>>, ~first => Begun(pic)
  PROVE  /\ Begun(pic \o data)
         /\ last => Framed(pic \o data)
<1> DEFINE all == pic \o data
<1>1. /\ Len(pic) \in Nat /\ Len(data) \in Nat /\ Len(all) = Len(pic) + Len(data)
      /\ \A k \in 1 .. Len(pic) + Len(data) :
            all[k] = IF k <= Len(pic) THEN pic[k] ELSE data[k - Len(pic)]
  BY ConcatProperties, LenProperties
<1> HIDE DEF all
<1>2. Begun(all)
  <2>1. CASE first
    <3>1. Len(pic) = 0
      BY <2>1, EmptySeq
    <3>2. Len(data) >= 2 /\ data[1] = FF /\ data[2] = SOI
      <4>1. 0 \in MarkerAt(data, SOI, Len(data))
        BY <2>1 DEF FragmentOk
      <4> QED BY <1>1, <4>1 DEF MarkerAt, Lesser
    <3>3. all[1] = data[1] /\ all[2] = data[2]
      BY <1>1, <3>1, <3>2
    <3> QED BY <1>1, <3>1, <3>2, <3>3 DEF Begun
  <2>2. CASE ~first
    <3>1. Len(pic) >= 2 /\ pic[1] = FF /\ pic[2] = SOI
      BY <2>2 DEF Begun
    <3>2. all[1] = pic[1] /\ all[2] = pic[2]
      BY <1>1, <3>1
    <3> QED BY <1>1, <3>1, <3>2 DEF Begun
  <2> QED BY <2>1, <2>2
<1>3. ASSUME last PROVE Framed(all)
  <2>1. Len(data) - 2 \in MarkerAt(data, EOI, Len(data))
    <3>1. MarkerAt(data, EOI, Len(data)) = {Len(data) - 2}
      BY <1>3, Zenon DEF FragmentOk
    <3> QED BY <3>1
  <2>2. Len(data) >= 2 /\ data[Len(data) - 1] = FF /\ data[Len(data)] = EOI
    BY <1>1, <2>1 DEF MarkerAt, Lesser
  <2>3. all[Len(all) - 1] = data[Len(data) - 1] /\ all[Len(all)] = data[Len(data)]
    <3>1. ASSUME NEW k \in Nat, k >= 1, k <= Len(data)
          PROVE  all[Len(pic) + k] = data[k]
      <4>1. /\ Len(pic) + k \in 1 .. Len(pic) + Len(data) /\ ~(Len(pic) + k <= Len(pic))
            /\ (Len(pic) + k) - Len(pic) = k
        BY <1>1, <3>1
      <4> DEFINE j == Len(pic) + k
      <4>2. j \in 1 .. Len(pic) + Len(data) /\ ~(j <= Len(pic)) /\ j - Len(pic) = k
        BY <4>1
      <4> HIDE DEF j
      <4>3. all[j] = IF j <= Len(pic) THEN pic[j] ELSE data[j - Len(pic)]
        <5> HIDE DEF all
        <5> QED BY <1>1, <4>2, Zenon
      <4>4. all[j] = data[j - Len(pic)]
        BY <4>2, <4>3, Zenon
      <4> QED BY <4>2, <4>4, Zenon DEF j
    <3>2. /\ Len(all) - 1 = Len(pic) + (Len(data) - 1) /\ Len(all) = Len(pic) + Len(data)
          /\ Len(data) - 1 \in Nat /\ Len(data) - 1 >= 1 /\ Len(data) - 1 <= Len(data)
          /\ Len(data) >= 1 /\ Len(data) <= Len(data)
      BY <1>1, <2>2
    <3>3. all[Len(pic) + (Len(data) - 1)] = data[Len(data) - 1]
      BY <3>1, <3>2, Zenon
    <3>4. all[Len(pic) + Len(data)] = data[Len(data)]
      BY <1>1, <3>1, <3>2, Zenon
    <3> QED BY <3>2, <3>3, <3>4, Zenon
  <2> QED BY <1>2, <2>2, <2>3 DEF Framed, Begun
<1> QED BY <1>2, <1>3 DEF all

\* A further picture that is empty or framed.
LEMMA FramedAppend ==
  ASSUME NEW p \in Seq(Seq(Nat)), NEW pic \in Seq(Nat), pic = <<>> \/ Framed(pic),
         \A i \in 1 .. Len(p) : p[i] = <<>> \/ Framed(p[i])
  PROVE  \A i \in 1 .. Len(Append(p, pic)) : Append(p, pic)[i] = <<>> \/ Framed(Append(p, pic)[i])
<1> DEFINE q == Append(p, pic)
<1>1. /\ Len(p) \in Nat /\ Len(q) = Len(p) + 1
      /\ \A i \in 1 .. Len(p) : q[i] = p[i]
      /\ q[Len(p) + 1] = pic
  BY AppendProperties, LenProperties
<1> HIDE DEF q
<1>2. ASSUME NEW i \in 1 .. Len(q) PROVE q[i] = <<>> \/ Framed(q[i])
  <2>1. i \in 1 .. Len(p) \/ i = Len(p) + 1
    BY <1>1
  <2>2. CASE i \in 1 .. Len(p)
    BY <1>1, <2>2
  <2>3. CASE i = Len(p) + 1
    BY <1>1, <2>3
  <2> QED BY <2>1, <2>2, <2>3
<1> QED BY <1>2 DEF q

\* The last callback of those just made.
LEMMA LastOfNew ==
  ASSUME NEW evs \in Seq(Events), NEW e \in Events
  PROVE  Append(evs, e)[Len(Append(evs, e))] = e
BY AppendProperties, LenProperties

LEMMA FramedStep ==
  ASSUME IInv, SoiAwaited, SelfInv, PublishedFramed, PictureBegun, SendDecodes
  PROVE  PublishedFramed' /\ PictureBegun'
<1>1. /\ events \in Seq(Events) /\ found_soi \in BOOLEAN
      /\ (self.frameActive <=> IsOpen) /\ self.published \in Seq(Seq(Nat))
      /\ self.frameActive \in BOOLEAN
  BY DEF IInv, TypeOK, SelfInv, SelfOk, SelfType
<1>2. self.frameActive => PictureOf(self) \in Seq(Nat)
  BY PublishSlot DEF SelfInv, SelfOk
<1>3. SelfInv'
  BY TurnAssembles
<1>4. CASE Nothing /\ UNCHANGED self
  <2>1. PictureOf(self') = PictureOf(self) /\ LastEvent' = LastEvent
    BY <1>4 DEF Nothing, LastEvent
  <2> QED BY <1>4, <2>1 DEF PublishedFramed, PictureBegun
<1>5. CASE Opens /\ PictureOf(self') = <<>> /\ self'.published = self.published
  <2>1. PICK e \in Events : e.ev = "start" /\ events' = Append(events, e)
    BY <1>5 DEF Opens
  <2>2. LastEvent' = "start"
    BY <1>1, <2>1, LastOfNew DEF LastEvent
  <2> QED BY <1>5, <2>2 DEF PublishedFramed, PictureBegun
<1>6. CASE /\ Interrupts
           /\ PictureOf(self') = <<>>
           /\ self'.published = Append(self.published, <<>>)
  <2>1. PICK e, f \in Events : /\ e.ev = "incomplete" /\ f.ev = "start"
                               /\ events' = Append(Append(events, e), f)
    BY <1>6 DEF Interrupts
  <2>2. Append(events, e) \in Seq(Events)
    BY <1>1, AppendProperties
  <2>3. LastEvent' = "start"
    BY <2>1, <2>2, LastOfNew DEF LastEvent
  <2>4. PublishedFramed'
    <3>1. <<>> \in Seq(Nat)
      BY EmptySeq
    <3> QED BY <1>1, <1>6, <3>1, FramedAppend DEF PublishedFramed
  <2> QED BY <1>6, <2>3, <2>4 DEF PictureBegun
<1>7. ASSUME NEW f \in Events, NEW last \in BOOLEAN, IsOpen, FragmentOk(f.arg, ~found_soi, last)
      PROVE  /\ PictureOf(self) \o f.arg \in Seq(Nat)
             /\ Begun(PictureOf(self) \o f.arg)
             /\ last => Framed(PictureOf(self) \o f.arg)
  <2> DEFINE first == LastEvent = "start"
  <2>1. f.arg \in Seq(Nat) /\ PictureOf(self) \in Seq(Nat)
    BY <1>1, <1>2, <1>7 DEF Events
  <2>2. events # <<>> /\ LastEvent \in {"start", "fragment"}
    BY <1>7 DEF IInv, LastCallback, IsOpen
  <2>3. FragmentOk(f.arg, first, last)
    <3>1. first => ~found_soi
      BY <2>2 DEF SoiAwaited
    <3> QED BY <1>1, <1>7, <3>1, FragmentOkElsewhere, Zenon
  <2>4. (first => PictureOf(self) = <<>>) /\ (~first => Begun(PictureOf(self)))
    BY <1>1, <1>7, <2>2 DEF PictureBegun
  <2>5. first \in BOOLEAN
    OBVIOUS
  <2> HIDE DEF first
  <2>6. /\ Begun(PictureOf(self) \o f.arg)
        /\ last => Framed(PictureOf(self) \o f.arg)
    BY <1>7, <2>1, <2>3, <2>4, <2>5, ExtendedPicture, Zenon
  <2> QED BY <2>1, <2>6, ConcatProperties
<1>8. CASE /\ Extends
           /\ PictureOf(self') = PictureOf(self) \o events'[Len(events) + 1].arg
           /\ self'.published = self.published
  <2>1. PICK f \in Events : /\ f.ev = "fragment" /\ FragmentOk(f.arg, ~found_soi, FALSE)
                            /\ events' = Append(events, f)
    BY <1>8 DEF Extends
  <2>2. events'[Len(events) + 1] = f
    BY <1>1, <2>1, MadeOne
  <2>3. LastEvent' = "fragment"
    BY <1>1, <2>1, LastOfNew DEF LastEvent
  <2>4. Begun(PictureOf(self'))
    BY <1>7, <1>8, <2>1, <2>2 DEF Extends
  <2> QED BY <1>8, <2>3, <2>4 DEF PublishedFramed, PictureBegun
<1>9. CASE /\ Completes
           /\ self'.published =
                 Append(self.published, PictureOf(self) \o events'[Len(events) + 1].arg)
  <2>1. PICK f, c \in Events : /\ f.ev = "fragment" /\ FragmentOk(f.arg, ~found_soi, TRUE)
                               /\ c.ev = "complete"
                               /\ events' = Append(Append(events, f), c)
    BY <1>9 DEF Completes
  <2>2. events'[Len(events) + 1] = f
    BY <1>1, <2>1, MadeTwo
  <2>3. /\ PictureOf(self) \o f.arg \in Seq(Nat)
        /\ Framed(PictureOf(self) \o f.arg)
    BY <1>7, <1>9, <2>1 DEF Completes
  <2>4. PublishedFramed'
    BY <1>1, <1>9, <2>2, <2>3, FramedAppend DEF PublishedFramed
  <2>5. ~self'.frameActive
    BY <1>3, <1>9 DEF Completes, SelfInv
  <2> QED BY <2>4, <2>5 DEF PictureBegun
<1> QED BY <1>4, <1>5, <1>6, <1>7, <1>8, <1>9, TurnAssembles

\* Whatever the stream holds and however it is cut, every picture a reader of the ring is
\* given is empty or an image from its SOI marker to an EOI marker.
THEOREM PicturesFramed == VideoSpec => []PublishedFramed
<1> DEFINE Framing == PublishedFramed /\ PictureBegun
<1>1. VideoInit => Framing
  <2>1. VideoInit => self.published = <<>> /\ ~self.frameActive
    BY DEF VideoInit
  <2> QED BY <2>1, EmptySeq DEF PublishedFramed, PictureBegun
<1>2. IInv /\ SoiAwaited /\ SelfInv /\ Framing /\ [VideoNext]_<<vars, streamVars>> => Framing'
  <2> SUFFICES ASSUME IInv, SoiAwaited, SelfInv, Framing, [VideoNext]_<<vars, streamVars>>
               PROVE  Framing'
    OBVIOUS
  <2>1. CASE SendDecodes
    BY <2>1, FramedStep
  <2>2. CASE ~SendDecodes
    <3>1. UNCHANGED <<events, self>>
      BY <2>2, NoCallback
    <3>2. LastEvent' = LastEvent /\ PictureOf(self') = PictureOf(self)
      BY <3>1 DEF LastEvent
    <3> QED BY <3>1, <3>2 DEF PublishedFramed, PictureBegun
  <2> QED BY <2>1, <2>2
<1>3. VideoSpec => [](ImagesMarked /\ SoiAwaited)
  BY StreamIsDecoder, SpecImages, PTL
<1> HIDE DEF Framing
<1>4. Framing => PublishedFramed
  BY DEF Framing
<1> QED BY <1>1, <1>2, <1>3, <1>4, StreamIInv, PTL DEF VideoSpec
=============================================================================
