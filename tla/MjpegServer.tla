---------------------------- MODULE MjpegServer -----------------------------
(***************************************************************************)
(* The viewers of src/mjpeg_server.cpp.  Everything here but Publish and   *)
(* Signal runs in the network thread, one callback of uWebSockets at a     *)
(* time; a tick of the timer sends a batch of frames to every viewer, one  *)
(* write per step.  Connections are told apart, as the code does, by the   *)
(* address of their HttpResponse, which another connection may get as soon *)
(* as this one is gone, whether or not its entry has been erased.          *)
(***************************************************************************)
EXTENDS Integers, Sequences, SequencesExt, FiniteSetsExt

CONSTANTS
    Responses,       \* the addresses of uWS::HttpResponse objects
    MaxClients,      \* MAX_CLIENTS
    OutgoingLimits,  \* the values tried for MAX_OUTGOING_CLIENT_BUFFER_SIZE
    IdModulus,       \* 2^32: frame ids are the low bits of the sequence
    MaxQueued,       \* bound: what a socket may have left to write
    MaxSequence      \* bound: the last sequence published

ASSUME BoundsAssumption ==
    /\ {MaxClients, MaxQueued, MaxSequence} \cup OutgoingLimits \subseteq Nat
    /\ IdModulus \in Nat \ {0}

VARIABLES
    maxOutgoing,     \* MAX_OUTGOING_CLIENT_BUFFER_SIZE, fixed by the build
    running,         \* the global flag
    highest,         \* the ring's publishedSequence
    content,         \* TRUE for a sequence whose slot is not empty
    net,             \* the network thread: "loop", "tick", "closed"
    viewers,         \* activeViewers_
    available, nextRead,
    next_viewer,     \* i, in the loop over the viewers
    open,            \* the connections that watch, as uWebSockets sees them
    write_offset,    \* getWriteOffset() of each response
    joined, got      \* history: where a connection joined, what it was sent

ringVars == <<highest, content>>
tickVars == <<available, nextRead, next_viewer>>
connVars == <<open, write_offset, joined, got>>
vars == <<maxOutgoing, running, ringVars, net, viewers, tickVars, connVars>>

Sequence == 0 .. MaxSequence

Init ==
    /\ maxOutgoing \in OutgoingLimits
    /\ running = TRUE
    /\ highest = -1 /\ content = [s \in Sequence |-> FALSE]
    /\ net = "loop" /\ viewers = <<>>
    /\ available = -1 /\ nextRead = 0 /\ next_viewer = 1
    /\ open = {} /\ write_offset = [r \in Responses |-> 0]
    /\ joined = [r \in Responses |-> 0] /\ got = [r \in Responses |-> <<>>]

-----------------------------------------------------------------------------
(* The world.                                                              *)

\* The producer publishes a frame, or an empty slot for a dropped one.
Publish ==
    /\ highest < MaxSequence
    /\ highest' = highest + 1
    /\ content' \in {content, [content EXCEPT ![highest + 1] = TRUE]}
    /\ UNCHANGED <<running, net, viewers, tickVars, connVars>>

Signal ==
    /\ running
    /\ running' = FALSE
    /\ UNCHANGED <<ringVars, net, viewers, tickVars, connVars>>

\* What getWriteOffset() may return.
Offsets(r) == {[write_offset EXCEPT ![r] = n] : n \in 0 .. MaxQueued}

\* The kernel takes what a socket had left to write.
Drained(r) ==
    /\ net # "tick"
    /\ r \in open /\ write_offset[r] > 0
    /\ write_offset' = [write_offset EXCEPT ![r] = 0]
    /\ UNCHANGED <<running, ringVars, net, viewers, tickVars, open, joined, got>>

-----------------------------------------------------------------------------
(* Handlers of the event loop.                                             *)

Viewer(r) == [res |-> r, lastSentFrameId |-> 0, isClosed |-> FALSE, isLagging |-> FALSE]

Entries(r) == {i \in DOMAIN viewers : viewers[i].res = r}

\* Faulty: an address that is listed is not listed again.
Stream_Listed(r) ==
    /\ net # "tick"
    /\ r \notin open
    /\ Len(viewers) < MaxClients
    /\ viewers' = IF Entries(r) = {} THEN Append(viewers, Viewer(r)) ELSE viewers
    /\ open' = open \cup {r}
    /\ write_offset' \in Offsets(r)
    /\ joined' = [joined EXCEPT ![r] = nextRead]
    /\ got' = [got EXCEPT ![r] = <<>>]
    /\ UNCHANGED <<running, ringVars, net, tickVars>>

\* GET /stream from a connection that does not watch: a new one, or one whose response
\* was ended.  The headers, and what that response had queued, may be queued still.
\* Entries of connections that have gone count against the capacity until a tick erases
\* them.
Stream(r) ==
    /\ net # "tick"
    /\ r \notin open
    /\ Len(viewers) < MaxClients
    /\ viewers' = Append(viewers, Viewer(r))
    /\ open' = open \cup {r}
    /\ write_offset' \in Offsets(r)
    /\ joined' = [joined EXCEPT ![r] = nextRead]
    /\ got' = [got EXCEPT ![r] = <<>>]
    /\ UNCHANGED <<running, ringVars, net, tickVars>>

\* onAborted marks the first entry that has the address.  The response is freed, and what
\* is read from it by an entry that is still open is not defined.
Aborted(r) ==
    /\ net # "tick"
    /\ r \in open
    /\ open' = open \ {r}
    /\ viewers' = IF Entries(r) = {} THEN viewers
                  ELSE [viewers EXCEPT ![Min(Entries(r))].isClosed = TRUE]
    /\ write_offset' \in Offsets(r)
    /\ UNCHANGED <<running, ringVars, net, tickVars, joined, got>>

-----------------------------------------------------------------------------
(* onTimer.                                                                *)

\* The end: viewers, listen socket and timer are closed.
Close ==
    /\ net = "loop"
    /\ ~running
    /\ open' = open \ {viewers[i].res : i \in {j \in DOMAIN viewers : ~viewers[j].isClosed}}
    /\ viewers' = <<>>
    /\ net' = "closed"
    /\ UNCHANGED <<running, ringVars, tickVars, write_offset, joined, got>>

\* Nothing new: the timer returns, before it would erase the closed entries.
StartBatch ==
    /\ net = "loop"
    /\ running
    /\ highest >= nextRead
    /\ available' = highest
    /\ next_viewer' = 1
    /\ net' = "tick"
    /\ UNCHANGED <<running, ringVars, viewers, nextRead, connVars>>

\* Faulty: empty slots are sent too.
Serving_Empty ==
    /\ net = "tick"
    /\ nextRead <= available
    /\ next_viewer <= Len(viewers)

Serving ==
    /\ net = "tick"
    /\ nextRead <= available
    /\ content[nextRead]
    /\ next_viewer <= Len(viewers)

current == viewers[next_viewer]
currentFrameId == nextRead % IdModulus

Served ==
    /\ next_viewer' = next_viewer + 1
    /\ UNCHANGED <<running, ringVars, net, available, nextRead>>

SkipClosed ==
    /\ Serving
    /\ current.isClosed
    /\ Served
    /\ UNCHANGED <<viewers, connVars>>

tooSlow == write_offset[current.res] > maxOutgoing

\* Faulty: the entry is erased at once, and the loop steps over the next one.
Evict_Erases ==
    /\ Serving
    /\ ~current.isClosed
    /\ tooSlow
    /\ viewers' = RemoveAt(viewers, next_viewer)
    /\ open' = open \ {current.res}
    /\ Served
    /\ UNCHANGED <<write_offset, joined, got>>

\* res->end(): the response is over, and uWebSockets forgets its onAborted.
Evict ==
    /\ Serving
    /\ ~current.isClosed
    /\ tooSlow
    /\ viewers' = [viewers EXCEPT ![next_viewer].isClosed = TRUE]
    /\ open' = open \ {current.res}
    /\ Served
    /\ UNCHANGED <<write_offset, joined, got>>

\* Faulty: a viewer that is passed over is not marked as lagging.
Sent_Unmarked == [viewers EXCEPT ![next_viewer].lastSentFrameId = currentFrameId]

Sent == [viewers EXCEPT ![next_viewer].lastSentFrameId = currentFrameId,
                        ![next_viewer].isLagging = write_offset[current.res] > 0]

\* The frame is written; what the kernel does not take stays queued.
Write ==
    /\ Serving
    /\ ~current.isClosed
    /\ ~tooSlow
    /\ current.lastSentFrameId < currentFrameId
    /\ write_offset[current.res] = 0
    /\ got' = [got EXCEPT ![current.res] = Append(@, nextRead)]
    /\ write_offset' \in Offsets(current.res)
    /\ viewers' = Sent
    /\ Served
    /\ UNCHANGED <<open, joined>>

\* Something is queued still: this viewer is not sent the frame.
Lag ==
    /\ Serving
    /\ ~current.isClosed
    /\ ~tooSlow
    /\ current.lastSentFrameId < currentFrameId
    /\ write_offset[current.res] > 0
    /\ viewers' = Sent
    /\ Served
    /\ UNCHANGED connVars

SkipSent ==
    /\ Serving
    /\ ~current.isClosed
    /\ ~tooSlow
    /\ current.lastSentFrameId >= currentFrameId
    /\ Served
    /\ UNCHANGED <<viewers, connVars>>

NextFrame ==
    /\ net = "tick"
    /\ nextRead <= available
    /\ ~content[nextRead] \/ next_viewer > Len(viewers)
    /\ nextRead' = nextRead + 1
    /\ next_viewer' = 1
    /\ UNCHANGED <<running, ringVars, net, viewers, available, connVars>>

\* std::erase_if: what is kept are the entries that are not closed, in their order.
Kept == {i \in DOMAIN viewers : ~viewers[i].isClosed}

EraseClosed ==
    \E n \in 0 .. Len(viewers) : \E at \in Surjection(1 .. n, Kept) :
        /\ \A i, j \in 1 .. n : i < j => at[i] < at[j]
        /\ viewers' = [i \in 1 .. n |-> viewers[at[i]]]

EndBatch ==
    /\ net = "tick"
    /\ nextRead > available
    /\ EraseClosed
    /\ net' = "loop"
    /\ UNCHANGED <<running, ringVars, tickVars, connVars>>

Timer == \/ Close \/ StartBatch \/ SkipClosed \/ Evict \/ Write \/ Lag \/ SkipSent
         \/ NextFrame \/ EndBatch

\* The timer is gone, and no frame is sent any more.
Over == net = "closed" /\ UNCHANGED vars

Next ==
    /\ \/ Publish \/ Signal \/ Timer \/ Over
       \/ \E r \in Responses : Stream(r) \/ Aborted(r) \/ Drained(r)
    /\ UNCHANGED maxOutgoing

Spec == Init /\ [][Next]_vars

-----------------------------------------------------------------------------
\* Type correctness; the list never grows past MAX_CLIENTS.
TypeOK ==
    /\ maxOutgoing \in OutgoingLimits
    /\ running \in BOOLEAN
    /\ highest \in -1 .. MaxSequence /\ content \in [Sequence -> BOOLEAN]
    /\ net \in {"loop", "tick", "closed"}
    /\ viewers \in Seq([res : Responses, lastSentFrameId : 0 .. IdModulus - 1,
                        isClosed : BOOLEAN, isLagging : BOOLEAN])
    /\ Len(viewers) <= MaxClients
    /\ available \in -1 .. highest /\ nextRead \in 0 .. available + 1
    /\ next_viewer \in 1 .. MaxClients + 1
    /\ open \subseteq Responses /\ write_offset \in [Responses -> 0 .. MaxQueued]
    /\ joined \in [Responses -> 0 .. MaxSequence + 1]
    /\ got \in [Responses -> Seq(Sequence)]

OpenEntries(r) == {i \in Entries(r) : ~viewers[i].isClosed}

\* Every connection that watches has an entry that is not closed, whatever else has been
\* listed at its address: it goes on receiving frames.
WatchersListed == \A r \in open : OpenEntries(r) # {}

\* "Viewer disconnected from stream": frames are written to exactly the connections that
\* watch, for an entry that is not closed is that of a live response, and each of those
\* has one.
WatchersExact ==
    net # "closed" =>
        \A r \in Responses :
            Cardinality(OpenEntries(r)) = IF r \in open THEN 1 ELSE 0

\* The frames of the ring a connection has passed over or been sent since it joined.
Due(r) == {s \in joined[r] .. nextRead - 1 : content[s]}

\* A viewer that no other open entry has the address of is sent frames in the order of
\* the stream, none twice, none from before it joined, and no slot of a frame that was
\* dropped.
DeliveredInOrder ==
    \A r \in open : \A i \in OpenEntries(r) : OpenEntries(r) = {i} =>
        /\ \A k \in 1 .. Len(got[r]) - 1 : got[r][k] < got[r][k + 1]
        /\ net = "loop" => Range(got[r]) \subseteq Due(r)

\* Such a viewer, when it is not lagging, has the latest frame after each batch: the image
\* on its screen is never behind one that it could have been sent.  With
\* MAX_OUTGOING_CLIENT_BUFFER_SIZE 0 it is served without a gap, or gone.  Frame 0, and
\* every frame once the ids have wrapped, fail the comparison of line 85.
UpToDate ==
    net = "loop" /\ nextRead <= IdModulus =>
        \A r \in open : \A i \in OpenEntries(r) : OpenEntries(r) = {i} =>
            LET due == Due(r) \ {0}
            IN  /\ ~viewers[i].isLagging /\ due # {} =>
                       got[r] # <<>> /\ Last(got[r]) = Max(due)
                /\ maxOutgoing = 0 => due \subseteq Range(got[r])
=============================================================================
