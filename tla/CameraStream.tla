---------------------------- MODULE CameraStream ----------------------------
(***************************************************************************)
(* What the decoder promises of a stream that is made of packets, with     *)
(* padding and stale headers between them: the callbacks are those of the  *)
(* packets, one after the other.  Here there are neither chunks nor a      *)
(* buffer, a cursor, or headers to look for: a packet is known by where it *)
(* begins, and reading it depends on the packets before it alone.          *)
(*                                                                         *)
(* Of a stream of other bytes nothing of the kind can be promised, because *)
(* what the look-ahead for ghosts finds depends on what has arrived.       *)
(***************************************************************************)
EXTENDS UpDecoder

CONSTANT Packets          \* for each stream, where its packets begin

PacketEnd(s, p) == p + HDR_LEN + s[p + 2]

-----------------------------------------------------------------------------
(* Streams made of packets.                                                *)

\* A packet has a length the decoder accepts, all of it is in the stream, it holds no header
\* within reach of the look-ahead for ghosts, and it is over before the next one begins.
IsPacket(s, starts, p) ==
    /\ s[p + 1] = DEL
    /\ s[p + 2] \in FRAG_HDR_LEN .. MAX_FRAG_LEN
    /\ PacketEnd(s, p) <= Len(s)
    /\ \A o \in HDR_LEN .. MAX_GHOST_OFF : p + o + HDR_LEN <= Len(s) => s[p + o + 1] # DEL
    /\ \A q \in starts : p < q => PacketEnd(s, p) <= q

\* The headers outside of the packets.
StaleHeaders(s, starts) ==
    {x \in 0 .. Len(s) - DATA_OFFSET :
        s[x + 1] = DEL /\ \A p \in starts : ~(p <= x /\ x < PacketEnd(s, p))}

\* A stale header reaches into no packet; and if its length could be that of one, another
\* header follows in time to give it away, or nothing comes that it could swallow.
IsHarmless(s, starts, x) ==
    /\ \A p \in starts : x < p =>
          /\ x + HDR_LEN <= p
          /\ s[x + 2] < FRAG_HDR_LEN => PacketEnd(s, x) <= p
    /\ s[x + 2] \in FRAG_HDR_LEN .. MAX_FRAG_LEN =>
          \/ \E o \in HDR_LEN .. Lesser(s[x + 2], MAX_GHOST_OFF) :
                x + o + HDR_LEN <= Len(s) /\ s[x + o + 1] = DEL
          \/ PacketEnd(s, x) > Len(s) /\ \A p \in starts : p < x

WellPacked(s, starts) ==
    /\ starts \subseteq Nat
    /\ \A p \in starts : IsPacket(s, starts, p)
    /\ \A x \in StaleHeaders(s, starts) : IsHarmless(s, starts, x)

WellPackedStreams == \A s \in Streams : WellPacked(s, Packets[s])

-----------------------------------------------------------------------------
(* Reading one packet after the other.                                     *)

PacketAt(s, p) == [id    |-> s[p + HDR_LEN + 1],
                   flags |-> s[p + HDR_LEN + 2],
                   data  |-> SubSeq(s, p + DATA_OFFSET + 1, PacketEnd(s, p))]

Unread == [building |-> FALSE, id |-> 0, soi |-> FALSE, eof |-> FALSE, events |-> <<>>]

\* The frame the packet belongs to is the one being built, or begins with it.
Opened(r, packet) ==
    IF r.building /\ r.id = packet.id THEN r
    ELSE [building |-> TRUE, id |-> packet.id, soi |-> FALSE, eof |-> FALSE,
          events |-> Append(IF r.building /\ ~r.eof
                              THEN Append(r.events, Event("incomplete", <<>>))
                              ELSE r.events,
                            Event("start", <<packet.id>>))]

\* The data from the image's SOI on, up to and with its EOI, unless the image is over or
\* does not begin here.
Shown(r, packet) ==
    LET data   == packet.data
        begins == MarkerAt(data, SOI, SOI_MAX_POS)
        img    == IF r.soi THEN data ELSE SubSeq(data, Least(begins) + 1, Len(data))
        ends   == MarkerAt(img, EOI, Len(img))
        shown  == Append(r.events, Event("fragment",
                     IF ends = {} THEN img ELSE SubSeq(img, 1, Least(ends) + 2)))
    IN  IF r.eof \/ packet.flags # 0 \/ (~r.soi /\ begins = {}) THEN r
        ELSE [r EXCEPT !.soi = TRUE,
                       !.eof = (ends # {}),
                       !.events = IF ends = {} THEN shown
                                  ELSE Append(shown, Event("complete", <<>>))]

\* A packet of no lens is passed over.
Taken(r, packet) == IF packet.flags = 2 THEN r ELSE Shown(Opened(r, packet), packet)

Past(s, r, n) == IF n \in Packets[s] THEN Taken(r, PacketAt(s, n)) ELSE r

\* What has been read when the packets that begin before position n have been.
ReadUpTo(s) ==
    LET read[n \in Nat] == IF n = 0 THEN Unread ELSE Past(s, read[n - 1], n - 1)
    IN  read

-----------------------------------------------------------------------------
\* However the stream is cut into chunks, and whatever padding and stale headers lie
\* between the packets, the callbacks made when all of it has been decoded are the ones
\* its packets call for: no packet lost, taken twice or taken from stale memory.
ChunkingInvisible ==
    pc = "idle" /\ sent = Len(stream) =>
        events = ReadUpTo(stream)[Len(stream)].events
=============================================================================
