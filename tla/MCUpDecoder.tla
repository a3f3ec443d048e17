---------------------------- MODULE MCUpDecoder -----------------------------
(***************************************************************************)
(* Streams for UpDecoder, built from what the camera sends: packets of two *)
(* frames, page padding, stale headers left in the padding.  And, defined  *)
(* on the packets rather than on the bytes, the callbacks they should lead *)
(* to.                                                                     *)
(***************************************************************************)
EXTENDS UseeplusVideoStream, CameraStream, SequencesExt, FiniteSetsExt

CONSTANTS ScriptLength,     \* how many items a stream is made of
          ScriptItems       \* the items

MCDEL == 99
MCFF == 98
MCSOI == 97
MCEOI == 96

\* Data of a packet, all of them long enough for the packet to be out of reach of
\* the look-ahead for ghosts.
Begin == <<MCFF, MCSOI>>
Middle == <<0, 0>>
Finish == <<MCFF, MCEOI>>
Whole == <<MCFF, MCSOI, MCFF, MCEOI>>
LateStart == <<0, 0, MCFF, MCSOI>>

Video(id, flags, data) ==
    [id |-> id, flags |-> flags, data |-> data,
     bytes |-> <<MCDEL, FRAG_HDR_LEN + Len(data), id, flags>> \o data]
Stale(bytes) == [id |-> 0, flags |-> 2, data |-> <<>>, bytes |-> bytes]

Padding  == Stale(<<0>>)
Ghost    == Stale(<<MCDEL, MAX_FRAG_LEN, 0>>)
Absurd   == Stale(<<MCDEL, 2 * MAX_FRAG_LEN, 0, 0, 0, 0, 0>>)
TooShort == Stale(<<MCDEL, 1, 0>>)

CleanItems == { Video(1, 0, Begin), Video(1, 0, Middle), Video(1, 0, Finish),
                Video(2, 0, Whole), Video(2, 0, LateStart), Video(2, 1, Whole),
                Video(1, 2, Whole), Padding, Ghost, Absurd, TooShort }

Scripts == [1 .. ScriptLength -> ScriptItems]
Bytes(script) == FlattenSeq([i \in DOMAIN script |-> script[i].bytes])
MCStreams == {Bytes(script) : script \in Scripts}

-----------------------------------------------------------------------------
(* The reference: frames as maximal runs of packets with the same frame id. *)

Marker(data, m) == {i \in 1 .. Len(data) - 1 : data[i] = MCFF /\ data[i + 1] = m}
StartsIn(data) == {i \in Marker(data, MCSOI) : i < SOI_MAX_POS}

\* The callbacks for one run; an unfinished last run is still open.
RunEvents(run, isLast) ==
    LET imgs  == SelectSeq(run, LAMBDA p : p.flags = 0)
        begins == {k \in DOMAIN imgs : StartsIn(imgs[k].data) # {}}
        cut(k) == IF k = Min(begins)
                    THEN SubSeq(imgs[k].data, Min(StartsIn(imgs[k].data)),
                                Len(imgs[k].data))
                    ELSE imgs[k].data
        used  == {k \in DOMAIN imgs : begins # {} /\ k >= Min(begins)}
        ends  == {k \in used : Marker(cut(k), MCEOI) # {}}
        last  == IF ends = {} THEN Len(imgs) ELSE Min(ends)
        piece(k) == IF k \in ends
                      THEN SubSeq(cut(k), 1, Min(Marker(cut(k), MCEOI)) + 1)
                      ELSE cut(k)
        pieces == IF begins = {} THEN <<>>
                  ELSE [i \in 1 .. last - Min(begins) + 1 |->
                          Event("fragment", piece(Min(begins) + i - 1))]
    IN  <<Event("start", <<run[1].id>>)>> \o pieces \o
        (IF ends # {} THEN <<Event("complete", <<>>)>>
         ELSE IF isLast THEN <<>> ELSE <<Event("incomplete", <<>>)>>)

\* The callbacks for each run.
Runs(script) ==
    LET pkts   == SelectSeq(script, LAMBDA p : p.flags # 2)
        starts == SetToSortSeq({i \in DOMAIN pkts : i = 1 \/ pkts[i].id # pkts[i - 1].id}, <)
        upTo(r) == IF r = Len(starts) THEN Len(pkts) ELSE starts[r + 1] - 1
    IN  [r \in DOMAIN starts |->
            RunEvents(SubSeq(pkts, starts[r], upTo(r)), r = Len(starts))]

Assemble(script) == FlattenSeq(Runs(script))

-----------------------------------------------------------------------------
(* Where the packets begin in each stream, and that reading them, packet   *)
(* after packet, comes to the callbacks of the runs.                       *)

\* Only packets have the lengths that packets have.
Lengths == {FRAG_HDR_LEN + Len(item.data) : item \in {i \in ScriptItems : i.data # <<>>}}

MCPackets ==
    [s \in MCStreams |-> {p \in 0 .. Len(s) - DATA_OFFSET : s[p + 1] = DEL /\ s[p + 2] \in Lengths}]

ASSUME StreamsArePackets == WellPackedStreams

ASSUME ReadAsRuns ==
    \A script \in Scripts :
        ReadUpTo(Bytes(script))[Len(Bytes(script))].events = Assemble(script)
=============================================================================
