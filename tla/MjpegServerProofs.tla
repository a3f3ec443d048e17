------------------------- MODULE MjpegServerProofs --------------------------
(***************************************************************************)
(* Proofs about MjpegServer, for any number of addresses, viewers and      *)
(* frames, whatever the limits, and however addresses come back while old  *)
(* entries are listed: types, that who watches is listed, and what is      *)
(* promised to a connection that no other open entry has the address of.   *)
(***************************************************************************)
EXTENDS MjpegServer, SequenceTheorems, WellFoundedInduction, TLAPS

LEMMA Bounds ==
    /\ MaxClients \in Nat /\ MaxQueued \in Nat /\ MaxSequence \in Nat
    /\ OutgoingLimits \subseteq Nat /\ IdModulus \in Nat \ {0}
  BY BoundsAssumption

ViewerType == [res : Responses, lastSentFrameId : 0 .. IdModulus - 1,
               isClosed : BOOLEAN, isLagging : BOOLEAN]

\* What erase_if leaves: the entries that are not closed, each at a new place, in the
\* order they had.
LEMMA Erased ==
    ASSUME viewers \in Seq(ViewerType), EraseClosed
    PROVE  /\ viewers' \in Seq(ViewerType)
           /\ Len(viewers') <= Len(viewers)
           /\ \E at \in [DOMAIN viewers' -> Kept] :
                 /\ \A i, j \in DOMAIN viewers' : i < j => at[i] < at[j]
                 /\ \A i \in Kept : \E j \in DOMAIN viewers' : at[j] = i
                 /\ \A i \in DOMAIN viewers' : viewers'[i] = viewers[at[i]]
<1>1. Len(viewers) \in Nat /\ DOMAIN viewers = 1 .. Len(viewers)
      /\ \A i \in DOMAIN viewers : viewers[i] \in ViewerType
  BY LenProperties, ElementOfSeq
<1>2. PICK n \in 0 .. Len(viewers) : \E at \in Surjection(1 .. n, Kept) :
        /\ \A i, j \in 1 .. n : i < j => at[i] < at[j]
        /\ viewers' = [i \in 1 .. n |-> viewers[at[i]]]
  BY DEF EraseClosed
<1>3. PICK at \in Surjection(1 .. n, Kept) :
        /\ \A i, j \in 1 .. n : i < j => at[i] < at[j]
        /\ viewers' = [i \in 1 .. n |-> viewers[at[i]]]
  BY <1>2
<1>4. at \in [1 .. n -> Kept] /\ \A i \in Kept : \E j \in 1 .. n : at[j] = i
  BY <1>3 DEF Surjection
<1>5. n \in Nat /\ n <= Len(viewers)
  BY <1>1, <1>2
<1>6. \A i \in 1 .. n : viewers[at[i]] \in ViewerType
  BY <1>1, <1>4 DEF Kept
<1>7. viewers' \in Seq(ViewerType) /\ Len(viewers') = n /\ DOMAIN viewers' = 1 .. n
  <2>1. viewers' \in [1 .. n -> ViewerType]
    BY <1>3, <1>6
  <2> QED  BY <1>5, <2>1, IsASeq, LenProperties
<1> QED  BY <1>3, <1>4, <1>5, <1>7

-----------------------------------------------------------------------------
(* Types.                                                                  *)

LEMMA InitTypeOK == Init => TypeOK
<1> SUFFICES ASSUME Init PROVE TypeOK
  OBVIOUS
<1>1. viewers \in Seq(ViewerType) /\ Len(viewers) = 0
  BY EmptySeq DEF Init
<1>2. <<>> \in Seq(Sequence)
  BY EmptySeq
<1> QED  BY <1>1, <1>2, Bounds DEF Init, TypeOK, Sequence, ViewerType

\* The entry a step changes keeps its type, and the number of entries.
LEMMA ViewerChanged ==
    ASSUME viewers \in Seq(ViewerType), NEW i \in DOMAIN viewers, NEW v \in ViewerType,
           viewers' = [viewers EXCEPT ![i] = v]
    PROVE  /\ viewers' \in Seq(ViewerType)
           /\ Len(viewers') = Len(viewers) /\ DOMAIN viewers' = DOMAIN viewers
           /\ viewers'[i] = v
           /\ \A j \in DOMAIN viewers : j # i => viewers'[j] = viewers[j]
<1>1. Len(viewers) \in Nat /\ DOMAIN viewers = 1 .. Len(viewers)
      /\ \A j \in DOMAIN viewers : viewers[j] \in ViewerType
  BY LenProperties, ElementOfSeq
<1>2. viewers' \in [1 .. Len(viewers) -> ViewerType]
  BY <1>1
<1>3. viewers' \in Seq(ViewerType) /\ Len(viewers') = Len(viewers)
      /\ DOMAIN viewers' = 1 .. Len(viewers)
  BY <1>1, <1>2, IsASeq, LenProperties
<1> QED  BY <1>1, <1>3

\* The viewer that is served, with its fields.
LEMMA CurrentType ==
    ASSUME TypeOK, Serving
    PROVE  /\ next_viewer \in DOMAIN viewers /\ current \in ViewerType
           /\ current = viewers[next_viewer] /\ current.res \in Responses
           /\ nextRead \in Sequence /\ nextRead \in Nat
           /\ currentFrameId \in 0 .. IdModulus - 1
<1>1. viewers \in Seq(ViewerType) /\ Len(viewers) \in Nat
      /\ DOMAIN viewers = 1 .. Len(viewers)
  BY LenProperties DEF TypeOK, ViewerType
<1>2. next_viewer \in DOMAIN viewers
  BY <1>1, Bounds DEF TypeOK, Serving
<1>3. current \in ViewerType
  BY <1>1, <1>2, ElementOfSeq DEF current
<1>4. nextRead \in Sequence /\ nextRead \in Nat
  BY Bounds DEF TypeOK, Serving, Sequence
<1>5. \A n \in Nat, m \in Nat \ {0} : n % m \in 0 .. m - 1
  OBVIOUS
<1>6. currentFrameId \in 0 .. IdModulus - 1
  BY <1>4, <1>5, Bounds DEF currentFrameId
<1> QED  BY <1>2, <1>3, <1>4, <1>6 DEF current, ViewerType

\* The record an assignment leaves in the list.
EvictedViewer == [current EXCEPT !.isClosed = TRUE]
SentViewer == [current EXCEPT !.lastSentFrameId = currentFrameId,
                              !.isLagging = write_offset[current.res] > 0]

LEMMA SentIs ==
    ASSUME TypeOK, Serving
    PROVE  /\ Sent = [viewers EXCEPT ![next_viewer] = SentViewer]
           /\ SentViewer \in ViewerType
           /\ SentViewer.res = current.res /\ SentViewer.isClosed = current.isClosed
           /\ SentViewer.lastSentFrameId = currentFrameId
           /\ SentViewer.isLagging = (write_offset[current.res] > 0)
<1>1. /\ next_viewer \in DOMAIN viewers /\ current \in ViewerType
      /\ current = viewers[next_viewer] /\ current.res \in Responses
      /\ currentFrameId \in 0 .. IdModulus - 1
  BY CurrentType
<1>2. (write_offset[current.res] > 0) \in BOOLEAN
  OBVIOUS
<1>3. /\ SentViewer \in ViewerType
      /\ SentViewer.res = current.res /\ SentViewer.isClosed = current.isClosed
      /\ SentViewer.lastSentFrameId = currentFrameId
      /\ SentViewer.isLagging = (write_offset[current.res] > 0)
  BY <1>1, <1>2 DEF SentViewer, ViewerType
<1>4. Sent = [viewers EXCEPT ![next_viewer] = SentViewer]
  BY <1>1 DEF Sent, SentViewer, current
<1> QED  BY <1>3, <1>4

LEMMA TypeHandlers ==
    ASSUME TypeOK, UNCHANGED maxOutgoing, NEW r \in Responses,
           Stream(r) \/ Aborted(r) \/ Drained(r)
    PROVE  TypeOK'
<1>0. viewers \in Seq(ViewerType) /\ Len(viewers) \in Nat
      /\ \A i \in DOMAIN viewers : viewers[i] \in ViewerType
  BY LenProperties, ElementOfSeq DEF TypeOK, ViewerType
<1>1. CASE Stream(r)
  <2>1. Viewer(r) \in ViewerType
    BY Bounds DEF Viewer, ViewerType
  <2>2. viewers' \in Seq(ViewerType) /\ Len(viewers') = Len(viewers) + 1
    BY <1>0, <1>1, <2>1, AppendProperties DEF Stream
  <2>3. Len(viewers') <= MaxClients
    BY <1>0, <1>1, <2>2, Bounds DEF Stream
  <2>4. /\ open' \subseteq Responses /\ write_offset' \in [Responses -> 0 .. MaxQueued]
        /\ joined' \in [Responses -> 0 .. MaxSequence + 1]
        /\ got' \in [Responses -> Seq(Sequence)]
    <3>1. nextRead \in 0 .. MaxSequence + 1
      BY Bounds DEF TypeOK
    <3>2. <<>> \in Seq(Sequence)
      BY EmptySeq
    <3> QED  BY <1>1, <3>1, <3>2, Bounds DEF TypeOK, Stream, Offsets
  <2> QED
    BY <1>1, <2>2, <2>3, <2>4 DEF TypeOK, Stream, ringVars, tickVars, ViewerType
<1>2. CASE Aborted(r)
  <2>1. viewers' \in Seq(ViewerType) /\ Len(viewers') = Len(viewers)
    <3>1. CASE Entries(r) = {}
      BY <1>0, <1>2, <3>1 DEF Aborted
    <3>2. CASE Entries(r) # {}
      <4> DEFINE i == Min(Entries(r))  v == [viewers[i] EXCEPT !.isClosed = TRUE]
      <4>1. viewers' = [viewers EXCEPT ![i].isClosed = TRUE]
        BY <1>2, <3>2 DEF Aborted
      <4>2. viewers' = [viewers EXCEPT ![i] = v]
        BY <4>1
      <4>3. CASE i \in DOMAIN viewers
        <5>1. viewers[i] \in ViewerType
          BY <1>0, <4>3
        <5>2. v \in ViewerType
          BY <5>1 DEF ViewerType
        <5> HIDE DEF i, v
        <5> QED  BY <1>0, <4>2, <4>3, <5>2, ViewerChanged
      <4>4. CASE i \notin DOMAIN viewers
        <5>1. viewers' = viewers
          BY <1>0, <4>1, <4>4
        <5> QED  BY <1>0, <5>1
      <4> QED  BY <4>3, <4>4
    <3> QED  BY <3>1, <3>2
  <2>2. write_offset' \in [Responses -> 0 .. MaxQueued]
    BY <1>2 DEF TypeOK, Aborted, Offsets
  <2> QED
    BY <1>2, <2>1, <2>2 DEF TypeOK, Aborted, ringVars, tickVars, ViewerType
<1>3. CASE Drained(r)
  BY <1>3, Bounds DEF TypeOK, Drained, ringVars, tickVars
<1> QED  BY <1>1, <1>2, <1>3

\* Serving a viewer: its entry may change, and the loop goes on to the next.
LEMMA TypeServed ==
    ASSUME TypeOK, UNCHANGED maxOutgoing, SkipClosed \/ Evict \/ Write \/ Lag \/ SkipSent
    PROVE  TypeOK'
<1>1. Serving /\ Served
  BY DEF SkipClosed, Evict, Write, Lag, SkipSent
<1>2. /\ viewers \in Seq(ViewerType) /\ Len(viewers) \in Nat
      /\ next_viewer \in DOMAIN viewers /\ current \in ViewerType
      /\ nextRead \in Sequence
  BY <1>1, CurrentType, LenProperties DEF TypeOK, ViewerType
<1>3. next_viewer' \in 1 .. MaxClients + 1
  <2>1. next_viewer <= Len(viewers) /\ Len(viewers) <= MaxClients
        /\ next_viewer \in 1 .. MaxClients + 1 /\ next_viewer' = next_viewer + 1
    BY <1>1 DEF TypeOK, Serving, Served
  <2>2. MaxClients \in Nat
    BY Bounds
  <2> QED  BY <1>2, <2>1, <2>2
<1>4. viewers' \in Seq(ViewerType) /\ Len(viewers') = Len(viewers)
  <2>1. CASE SkipClosed \/ SkipSent
    BY <1>2, <2>1 DEF SkipClosed, SkipSent
  <2>2. CASE Evict
    <3>1. viewers' = [viewers EXCEPT ![next_viewer] = EvictedViewer]
      BY <2>2 DEF Evict, EvictedViewer, current
    <3>2. EvictedViewer \in ViewerType
      BY <1>2 DEF EvictedViewer, ViewerType
    <3> QED  BY <1>2, <3>1, <3>2, ViewerChanged
  <2>3. CASE Write \/ Lag
    <3>1. viewers' = [viewers EXCEPT ![next_viewer] = SentViewer] /\ SentViewer \in ViewerType
      BY <1>1, <2>3, SentIs DEF Write, Lag
    <3> QED  BY <1>2, <3>1, ViewerChanged
  <2> QED  BY <2>1, <2>2, <2>3
<1>5. /\ open' \subseteq Responses /\ write_offset' \in [Responses -> 0 .. MaxQueued]
      /\ UNCHANGED joined /\ got' \in [Responses -> Seq(Sequence)]
  <2>1. CASE SkipClosed \/ Lag \/ SkipSent
    BY <2>1 DEF TypeOK, SkipClosed, Lag, SkipSent, connVars
  <2>2. CASE Evict
    BY <2>2 DEF TypeOK, Evict
  <2>3. CASE Write
    <3>1. \A r \in Responses : Append(got[r], nextRead) \in Seq(Sequence)
      BY <1>2, AppendProperties DEF TypeOK
    <3> QED  BY <2>3, <3>1 DEF TypeOK, Write, Offsets
  <2> QED  BY <2>1, <2>2, <2>3
<1> QED  BY <1>1, <1>2, <1>3, <1>4, <1>5 DEF TypeOK, Served, ringVars, ViewerType

LEMMA TypeBatch ==
    ASSUME TypeOK, UNCHANGED maxOutgoing, Close \/ StartBatch \/ NextFrame \/ EndBatch
    PROVE  TypeOK'
<1>0. viewers \in Seq(ViewerType) /\ Len(viewers) \in Nat
  BY LenProperties DEF TypeOK, ViewerType
<1>1. CASE Close
  <2>1. viewers' \in Seq(ViewerType) /\ Len(viewers') = 0 /\ open' \subseteq Responses
    BY <1>1, EmptySeq DEF Close, TypeOK
  <2> QED  BY <1>1, <2>1, Bounds DEF TypeOK, Close, ringVars, tickVars, ViewerType
<1>2. CASE StartBatch
  BY <1>2, Bounds DEF TypeOK, StartBatch, ringVars, connVars
<1>3. CASE NextFrame
  BY <1>3, Bounds DEF TypeOK, NextFrame, ringVars, connVars
<1>4. CASE EndBatch
  <2>1. viewers' \in Seq(ViewerType) /\ Len(viewers') <= Len(viewers)
    BY <1>0, <1>4, Erased DEF EndBatch
  <2>2. Len(viewers') \in Nat
    BY <2>1, LenProperties
  <2>3. Len(viewers') <= MaxClients
    BY <1>0, <2>1, <2>2, Bounds DEF TypeOK
  <2> QED
    BY <1>4, <2>1, <2>3 DEF TypeOK, EndBatch, ringVars, tickVars, connVars, ViewerType
<1> QED  BY <1>1, <1>2, <1>3, <1>4

LEMMA TypeStep == TypeOK /\ [Next]_vars => TypeOK'
<1> SUFFICES ASSUME TypeOK, [Next]_vars PROVE TypeOK'
  OBVIOUS
<1>1. CASE Publish /\ UNCHANGED maxOutgoing
  <2>1. highest' \in -1 .. MaxSequence /\ available \in -1 .. highest'
    BY <1>1, Bounds DEF Publish, TypeOK, tickVars
  <2>2. content' \in [Sequence -> BOOLEAN]
    BY <1>1 DEF Publish, TypeOK
  <2> QED  BY <1>1, <2>1, <2>2 DEF Publish, TypeOK, tickVars, connVars
<1>2. CASE Signal /\ UNCHANGED maxOutgoing
  BY <1>2 DEF Signal, TypeOK, ringVars, tickVars, connVars
<1>3. CASE Timer /\ UNCHANGED maxOutgoing
  BY <1>3, TypeServed, TypeBatch DEF Timer
<1>4. CASE UNCHANGED vars
  BY <1>4 DEF TypeOK, vars, ringVars, tickVars, connVars
<1>5. ASSUME NEW r \in Responses, Stream(r) \/ Aborted(r) \/ Drained(r),
             UNCHANGED maxOutgoing
      PROVE  TypeOK'
  BY <1>5, TypeHandlers
<1> QED  BY <1>1, <1>2, <1>3, <1>4, <1>5 DEF Next, Over

\* Every variable keeps its type, and the list of viewers never grows past MAX_CLIENTS,
\* for any addresses and limits.
THEOREM MjpegTypeCorrect == Spec => []TypeOK
  BY InitTypeOK, TypeStep, PTL DEF Spec

-----------------------------------------------------------------------------
(* What a connection is promised.                                          *)

\* Every connection has an entry that is not closed.
EntriesInv ==
    \A r \in open : \E i \in DOMAIN viewers : viewers[i].res = r /\ ~viewers[i].isClosed

\* The loop over the viewers is under way only with a frame that is there to be sent.
LoopInv == net = "tick" /\ next_viewer > 1 => nextRead <= available /\ content[nextRead]

\* The last sequence entry i has been offered.
Passed(i) == IF net = "tick" /\ i < next_viewer THEN nextRead ELSE nextRead - 1

\* A connection that joined at `from` and has been sent g while the stream c went by up
\* to p: frames of that stretch, one after the other.
InOrder(p, c, from, g) ==
    /\ from <= p + 1
    /\ \A k \in 1 .. Len(g) : g[k] \in from .. p /\ c[g[k]]
    /\ \A k \in 1 .. Len(g) - 1 : g[k] < g[k + 1]

\* Until the ids wrap, the comparison with lastSentFrameId fails for frame 0 only; so an
\* entry v that does not lag has been sent the latest frame, and, when a queue of m = 0
\* bytes is too long already, every frame.
Current(v, p, c, from, g, m) ==
    p < IdModulus =>
        LET due == {s \in from .. p : c[s] /\ s # 0}
        IN  /\ v.lastSentFrameId = 0 \/ v.lastSentFrameId <= p
            /\ ~v.isLagging => \A s \in due : g # <<>> /\ s <= g[Len(g)]
            /\ m = 0 => \A s \in due : \E k \in 1 .. Len(g) : g[k] = s

Promise(v, p, c, from, g, m) == InOrder(p, c, from, g) /\ Current(v, p, c, from, g, m)

EntryServed(i) ==
    LET r == viewers[i].res
    IN  Promise(viewers[i], Passed(i), content, joined[r], got[r], maxOutgoing)

\* Entry i is the only one that is open at the address of a connection.
Sole(i) ==
    /\ viewers[i].res \in open /\ ~viewers[i].isClosed
    /\ \A j \in DOMAIN viewers :
          ~viewers[j].isClosed /\ viewers[j].res = viewers[i].res => j = i

ServeInv == \A i \in DOMAIN viewers : Sole(i) => EntryServed(i)

ViewersInv == TypeOK /\ EntriesInv /\ LoopInv /\ ServeInv

\* Only what is past counts: frames published since, or a mark on the entry, change
\* nothing.
LEMMA PromiseKept ==
    ASSUME NEW v, NEW w, NEW p \in Int, NEW c, NEW d, NEW from \in Nat, NEW g, NEW m,
           Promise(v, p, c, from, g, m),
           \A s \in from .. p : d[s] = c[s],
           w.lastSentFrameId = v.lastSentFrameId, w.isLagging = v.isLagging
    PROVE  Promise(w, p, d, from, g, m)
<1>1. InOrder(p, d, from, g)
  BY DEF Promise, InOrder
<1>2. Current(w, p, d, from, g, m)
  BY DEF Promise, Current
<1> QED  BY <1>1, <1>2 DEF Promise

LEMMA SmallMod ==
    ASSUME NEW a \in Nat, NEW b \in Nat \ {0}, a < b
    PROVE  a % b = a
  OBVIOUS

\* An empty slot goes by, or a frame that the comparison passes over: only frame 0.
LEMMA PromisePassed ==
    ASSUME NEW v \in ViewerType, NEW p \in Int, p >= -1, NEW c, NEW from \in Nat,
           NEW g \in Seq(Nat), NEW m,
           Promise(v, p, c, from, g, m),
           ~c[p + 1] \/ v.lastSentFrameId >= (p + 1) % IdModulus
    PROVE  Promise(v, p + 1, c, from, g, m)
<1>00. p + 1 \in Nat
  OBVIOUS
<1>0. v.lastSentFrameId \in Nat /\ IdModulus \in Nat \ {0}
  BY Bounds DEF ViewerType
<1>1. InOrder(p + 1, c, from, g)
  BY DEF Promise, InOrder
<1>2. ASSUME p + 1 < IdModulus PROVE Current(v, p + 1, c, from, g, m)
  <2>1. p < IdModulus /\ (p + 1) % IdModulus = p + 1
    <3>1. (p + 1) % IdModulus = p + 1
      BY <1>00, <1>0, <1>2, SmallMod, Zenon
    <3> QED  BY <1>0, <1>2, <3>1
  <2>2. ~c[p + 1] \/ p + 1 = 0
    BY <1>0, <2>1 DEF Promise, Current
  <2>3. \A s \in from .. p + 1 : c[s] /\ s # 0 => s \in from .. p
    BY <2>2
  <2>4. v.lastSentFrameId = 0 \/ v.lastSentFrameId <= p + 1
    BY <1>0, <2>1 DEF Promise, Current
  <2> QED  BY <2>1, <2>3, <2>4 DEF Promise, Current
<1>3. Current(v, p + 1, c, from, g, m)
  BY <1>2 DEF Current
<1> QED  BY <1>1, <1>3 DEF Promise

\* The frame is written.
LEMMA PromiseWritten ==
    ASSUME NEW v, NEW w, NEW p \in Int, p >= -1, NEW c, NEW from \in Nat,
           NEW g \in Seq(Nat), NEW m,
           Promise(v, p, c, from, g, m), c[p + 1],
           w.lastSentFrameId = (p + 1) % IdModulus
    PROVE  Promise(w, p + 1, c, from, Append(g, p + 1), m)
<1> DEFINE h == Append(g, p + 1)  n == Len(g)
<1>00. p + 1 \in Nat
  OBVIOUS
<1>0. /\ n \in Nat /\ h \in Seq(Nat) /\ Len(h) = n + 1 /\ h[n + 1] = p + 1
      /\ \A k \in 1 .. n : h[k] = g[k]
      /\ h # <<>> /\ IdModulus \in Nat \ {0}
  <2> QED  BY <1>00, AppendProperties, LenProperties, Bounds
<1> HIDE DEF h, n
<1>1. InOrder(p + 1, c, from, h)
  <2>1. /\ from <= p + 1
        /\ \A k \in 1 .. n : g[k] \in from .. p /\ c[g[k]]
        /\ \A k \in 1 .. n - 1 : g[k] < g[k + 1]
    BY DEF Promise, InOrder, n
  <2>2. \A j \in 1 .. n + 1 : h[j] \in from .. p + 1 /\ c[h[j]]
    <3> TAKE k \in 1 .. n + 1
    <3>1. CASE k = n + 1
      BY <1>0, <2>1, <3>1
    <3>2. CASE k \in 1 .. n
      <4>1. h[k] = g[k] /\ g[k] \in from .. p /\ c[g[k]]
        BY <1>0, <2>1, <3>2
      <4>2. g[k] \in from .. p + 1
        BY <4>1
      <4> QED  BY <4>1, <4>2, Zenon
    <3> QED  BY <1>0, <3>1, <3>2
  <2>3. \A j \in 1 .. n : h[j] < h[j + 1]
    <3> TAKE k \in 1 .. n
    <3>1. CASE k = n
      BY <1>0, <2>1, <3>1
    <3>2. CASE k \in 1 .. n - 1
      BY <1>0, <2>1, <3>2
    <3> QED  BY <1>0, <3>1, <3>2
  <2> QED  BY <1>0, <2>1, <2>2, <2>3 DEF InOrder
<1>2. ASSUME p + 1 < IdModulus PROVE Current(w, p + 1, c, from, h, m)
  <2>1. p < IdModulus /\ w.lastSentFrameId = p + 1
    <3>1. (p + 1) % IdModulus = p + 1
      BY <1>00, <1>0, <1>2, SmallMod, Zenon
    <3>2. p < IdModulus
      BY <1>0, <1>2
    <3> QED  BY <3>1, <3>2
  <2>2. \A s \in from .. p + 1 : s <= h[n + 1]
    BY <1>0
  <2>3. ASSUME m = 0, NEW s \in from .. p + 1, c[s], s # 0
        PROVE  \E k \in 1 .. n + 1 : h[k] = s
    <3>1. CASE s = p + 1
      BY <1>0, <3>1
    <3>2. CASE s # p + 1
      <4>1. \E k \in 1 .. n : g[k] = s
        BY <2>1, <2>3, <3>2 DEF Promise, Current, n
      <4> QED  BY <1>0, <4>1
    <3> QED  BY <3>1, <3>2
  <2> QED  BY <1>0, <2>1, <2>2, <2>3 DEF Current
<1>3. Current(w, p + 1, c, from, h, m)
  BY <1>2 DEF Current
<1> QED  BY <1>1, <1>3 DEF Promise, h

\* The viewer is passed over, and marked; that is so only where queues are allowed.
LEMMA PromiseLagged ==
    ASSUME NEW v, NEW w, NEW p \in Int, p >= -1, NEW c, NEW from \in Nat,
           NEW g \in Seq(Nat), NEW m, m # 0,
           Promise(v, p, c, from, g, m),
           w.lastSentFrameId = (p + 1) % IdModulus, w.isLagging = TRUE
    PROVE  Promise(w, p + 1, c, from, g, m)
<1>1. InOrder(p + 1, c, from, g)
  BY DEF Promise, InOrder
<1>2. p + 1 < IdModulus => w.lastSentFrameId = p + 1
  BY Bounds
<1>3. Current(w, p + 1, c, from, g, m)
  BY <1>2 DEF Current
<1> QED  BY <1>1, <1>3 DEF Promise

\* The parts of the state that the invariant speaks of, with their types.
LEMMA Parts ==
    ASSUME ViewersInv
    PROVE  /\ viewers \in Seq(ViewerType) /\ Len(viewers) \in Nat
           /\ DOMAIN viewers = 1 .. Len(viewers)
           /\ \A i \in DOMAIN viewers : viewers[i] \in ViewerType /\ viewers[i].res \in Responses
           /\ nextRead \in Nat /\ next_viewer \in Nat \ {0}
           /\ available \in Int /\ highest \in Int /\ available <= highest
           /\ \A r \in Responses : joined[r] \in Nat /\ got[r] \in Seq(Nat)
           /\ \A r \in Responses : write_offset[r] \in Nat
           /\ maxOutgoing \in Nat
           /\ \A i \in DOMAIN viewers : Passed(i) \in Int /\ Passed(i) >= -1 /\ Passed(i) <= highest
<1>1. /\ viewers \in Seq(ViewerType) /\ Len(viewers) \in Nat
      /\ DOMAIN viewers = 1 .. Len(viewers)
      /\ \A i \in DOMAIN viewers : viewers[i] \in ViewerType
  BY LenProperties, ElementOfSeq DEF ViewersInv, TypeOK, ViewerType
<1>2. \A i \in DOMAIN viewers : viewers[i].res \in Responses
  BY <1>1 DEF ViewerType
<1>3. /\ nextRead \in Nat /\ next_viewer \in Nat \ {0}
      /\ available \in Int /\ highest \in Int /\ available <= highest
      /\ nextRead <= available + 1
  BY Bounds DEF ViewersInv, TypeOK
<1>4. \A r \in Responses : joined[r] \in Nat /\ write_offset[r] \in Nat
  BY Bounds DEF ViewersInv, TypeOK
<1>5. \A r \in Responses : got[r] \in Seq(Nat)
  <2>1. \A r \in Responses : got[r] \in Seq(Sequence)
    BY DEF ViewersInv, TypeOK
  <2>2. ASSUME NEW g \in Seq(Sequence) PROVE g \in Seq(Nat)
    <3>1. Sequence \subseteq Nat
      BY Bounds DEF Sequence
    <3>2. Len(g) \in Nat /\ g \in [1 .. Len(g) -> Sequence]
      BY LenProperties
    <3>3. g \in [1 .. Len(g) -> Nat]
      BY <3>1, <3>2
    <3> QED  BY <3>2, <3>3, IsASeq
  <2> QED  BY <2>1, <2>2
<1>6. maxOutgoing \in Nat
  BY Bounds DEF ViewersInv, TypeOK
<1>7. \A i \in DOMAIN viewers : Passed(i) \in Int /\ Passed(i) >= -1 /\ Passed(i) <= highest
  <2> TAKE i \in DOMAIN viewers
  <2>1. CASE net = "tick" /\ i < next_viewer
    <3>1. nextRead <= available
      BY <1>1, <1>3, <2>1 DEF ViewersInv, LoopInv
    <3> QED  BY <1>3, <2>1, <3>1 DEF Passed
  <2>2. CASE ~(net = "tick" /\ i < next_viewer)
    <3>1. Passed(i) = nextRead - 1
      BY <2>2 DEF Passed
    <3> QED  BY <1>3, <3>1
  <2> QED  BY <2>1, <2>2
<1> QED  BY <1>1, <1>2, <1>3, <1>4, <1>5, <1>6, <1>7

\* An entry that a step leaves as it is, perhaps at another place in the list.
LEMMA EntryKept ==
    ASSUME ViewersInv, UNCHANGED maxOutgoing,
           NEW i \in DOMAIN viewers, EntryServed(i), NEW j,
           viewers'[j].res = viewers[i].res,
           viewers'[j].lastSentFrameId = viewers[i].lastSentFrameId,
           viewers'[j].isLagging = viewers[i].isLagging,
           Passed(j)' = Passed(i),
           joined'[viewers[i].res] = joined[viewers[i].res],
           got'[viewers[i].res] = got[viewers[i].res],
           \A s \in 0 .. Passed(i) : content'[s] = content[s]
    PROVE  EntryServed(j)'
<1> DEFINE r == viewers[i].res  v == viewers[i]  w == viewers'[j]  p == Passed(i)
           from == joined[r]  g == got[r]
<1>1. Promise(v, p, content, from, g, maxOutgoing)
  BY DEF EntryServed
<1>2. p \in Int /\ from \in Nat
  BY Parts
<1>3. \A s \in from .. p : content'[s] = content[s]
  BY <1>2
<1>4. w.lastSentFrameId = v.lastSentFrameId /\ w.isLagging = v.isLagging
  OBVIOUS
<1>5. Promise(w, p, content', from, g, maxOutgoing)
  <2> HIDE DEF r, v, w, p, from, g
  <2> QED  BY <1>1, <1>2, <1>3, <1>4, PromiseKept
<1> QED  BY <1>5 DEF EntryServed

LEMMA InitViewersInv == Init => ViewersInv
<1> SUFFICES ASSUME Init PROVE ViewersInv
  OBVIOUS
<1>1. viewers = <<>> /\ DOMAIN viewers = {}
  BY DEF Init
<1> QED  BY <1>1, InitTypeOK DEF Init, ViewersInv, EntriesInv, LoopInv, ServeInv

\* Publishing adds beyond what any entry has been offered; the other steps here touch
\* nothing of it.
LEMMA WorldStep ==
    ASSUME ViewersInv, UNCHANGED maxOutgoing,
           Publish \/ Signal \/ (\E r \in Responses : Drained(r)) \/ UNCHANGED vars
    PROVE  EntriesInv' /\ LoopInv' /\ ServeInv'
<1>1. UNCHANGED <<net, viewers, available, nextRead, next_viewer, open, joined, got>>
  BY DEF Publish, Signal, Drained, vars, ringVars, tickVars, connVars
<1>2. \A s \in Nat : s <= highest => content'[s] = content[s]
  <2>1. CASE Publish
    <3>1. /\ content \in [Sequence -> BOOLEAN] /\ highest \in Int
          /\ \A s \in Nat : s <= highest => s \in Sequence
      BY Parts, Bounds DEF ViewersInv, TypeOK, Sequence
    <3> QED  BY <2>1, <3>1 DEF Publish
  <2>2. CASE ~Publish
    BY <2>2 DEF Signal, Drained, vars, ringVars
  <2> QED  BY <2>1, <2>2
<1>3. EntriesInv'
  BY <1>1 DEF ViewersInv, EntriesInv
<1>4. LoopInv'
  <2>1. nextRead <= available => content'[nextRead] = content[nextRead]
    BY <1>2, Parts
  <2> QED  BY <1>1, <2>1 DEF ViewersInv, LoopInv
<1>5. ServeInv'
  <2> SUFFICES ASSUME NEW i \in DOMAIN viewers, Sole(i)' PROVE EntryServed(i)'
    BY <1>1 DEF ServeInv
  <2>1. Passed(i)' = Passed(i)
    BY <1>1 DEF Passed
  <2>2. \A s \in 0 .. Passed(i) : content'[s] = content[s]
    BY <1>2, Parts, SMTT(60)
  <2>3. Sole(i)
    BY <1>1 DEF Sole
  <2> QED  BY <1>1, <2>1, <2>2, <2>3, EntryKept DEF ViewersInv, ServeInv
<1> QED  BY <1>3, <1>4, <1>5

\* A connection that comes is owed what is published from now on.
LEMMA StreamStep ==
    ASSUME ViewersInv, UNCHANGED maxOutgoing, NEW r \in Responses, Stream(r)
    PROVE  EntriesInv' /\ LoopInv' /\ ServeInv'
<1>0. PICK n \in Nat : n = Len(viewers)
  BY Parts
<1>1. /\ net # "tick" /\ r \notin open
      /\ viewers' = Append(viewers, Viewer(r))
      /\ open' = open \cup {r}
      /\ joined' = [joined EXCEPT ![r] = nextRead]
      /\ got' = [got EXCEPT ![r] = <<>>]
      /\ UNCHANGED <<content, net, nextRead, next_viewer, available>>
  BY DEF Stream, ringVars, tickVars
<1>2. Viewer(r) \in ViewerType
  BY Bounds DEF Viewer, ViewerType
<1>3. /\ DOMAIN viewers' = 1 .. n + 1 /\ DOMAIN viewers = 1 .. n /\ n \in Nat
      /\ viewers'[n + 1] = Viewer(r)
      /\ \A i \in 1 .. n : viewers'[i] = viewers[i]
  BY <1>0, <1>1, <1>2, Parts, AppendProperties, LenProperties
<1>4. Viewer(r).res = r /\ Viewer(r).isClosed = FALSE /\ Viewer(r).lastSentFrameId = 0
  BY DEF Viewer
<1>5. \A i : i \in 1 .. n + 1 <=> i \in 1 .. n \/ i = n + 1
  BY <1>3
<1>6. EntriesInv'
  <2> SUFFICES ASSUME NEW q \in open'
               PROVE  \E i \in 1 .. n + 1 : viewers'[i].res = q /\ ~viewers'[i].isClosed
    BY <1>3 DEF EntriesInv
  <2>1. CASE q = r
    BY <1>3, <1>4, <1>5, <2>1
  <2>2. CASE q # r
    <3>1. PICK i \in 1 .. n : viewers[i].res = q /\ ~viewers[i].isClosed
      BY <1>1, <1>3, <2>2 DEF ViewersInv, EntriesInv
    <3> QED  BY <1>3, <1>5, <3>1
  <2> QED  BY <2>1, <2>2
<1>7. LoopInv'
  BY <1>1 DEF LoopInv
<1>8. ServeInv'
  <2>1. ASSUME NEW i \in 1 .. n, Sole(i)' PROVE EntryServed(i)'
    <3>1. Passed(i)' = Passed(i)
      BY <1>1 DEF Passed
    <3>2. viewers'[i] = viewers[i] /\ i # n + 1 /\ n + 1 \in DOMAIN viewers'
      BY <1>3
    <3>3. viewers[i].res # r
      BY <1>3, <1>4, <2>1, <3>2 DEF Sole
    <3>4. Sole(i)
      <4>1. viewers[i].res \in open /\ ~viewers[i].isClosed
        BY <1>1, <2>1, <3>2, <3>3 DEF Sole
      <4>2. ASSUME NEW j \in 1 .. n, ~viewers[j].isClosed, viewers[j].res = viewers[i].res
            PROVE  j = i
        BY <1>3, <1>5, <2>1, <3>2, <4>2 DEF Sole
      <4> QED  BY <1>3, <4>1, <4>2 DEF Sole
    <3>5. /\ joined'[viewers[i].res] = joined[viewers[i].res]
          /\ got'[viewers[i].res] = got[viewers[i].res]
      BY <1>1, <1>3, <3>3, Parts DEF ViewersInv, TypeOK
    <3> QED
      BY <1>1, <1>3, <3>1, <3>2, <3>4, <3>5, EntryKept DEF ViewersInv, ServeInv
  <2>2. EntryServed(n + 1)'
    <3>1. Passed(n + 1)' = nextRead - 1
      BY <1>1 DEF Passed
    <3>2. joined'[r] = nextRead /\ got'[r] = <<>>
      BY <1>1 DEF ViewersInv, TypeOK
    <3>3. Promise(Viewer(r), nextRead - 1, content, nextRead, <<>>, maxOutgoing)
      <4>1. nextRead \in Nat
        BY Parts
      <4>2. nextRead .. nextRead - 1 = {}
        BY <4>1
      <4> QED  BY <1>4, <4>1, <4>2 DEF Promise, InOrder, Current
    <3> QED  BY <1>1, <1>3, <1>4, <3>1, <3>2, <3>3 DEF EntryServed
  <2> QED  BY <1>3, <1>5, <2>1, <2>2 DEF ServeInv
<1> QED  BY <1>6, <1>7, <1>8

\* One entry is closed and the connection at its address over, by onAborted or by an
\* eviction; the others are served as before, but for the turn of the one that is evicted.
LEMMA ClosedStep ==
    ASSUME ViewersInv, NEW i \in DOMAIN viewers,
           viewers' = [viewers EXCEPT ![i] = [viewers[i] EXCEPT !.isClosed = TRUE]],
           open' = open \ {viewers[i].res},
           UNCHANGED <<maxOutgoing, net, nextRead, available, content, joined, got>>,
           \/ UNCHANGED next_viewer
           \/ i = next_viewer /\ next_viewer' = next_viewer + 1
    PROVE  EntriesInv' /\ ServeInv'
<1> DEFINE v == [viewers[i] EXCEPT !.isClosed = TRUE]
<1>1. v \in ViewerType /\ v.isClosed = TRUE /\ v.res = viewers[i].res
  BY Parts DEF ViewerType
<1>2. viewers' = [viewers EXCEPT ![i] = v]
  OBVIOUS
<1> HIDE DEF v
<1>3. /\ DOMAIN viewers' = DOMAIN viewers /\ viewers'[i] = v
      /\ \A j \in DOMAIN viewers : j # i => viewers'[j] = viewers[j]
  BY <1>1, <1>2, Parts, ViewerChanged
<1>4. EntriesInv'
  <2> SUFFICES ASSUME NEW q \in open'
               PROVE  \E j \in DOMAIN viewers : viewers'[j].res = q /\ ~viewers'[j].isClosed
    BY <1>3 DEF EntriesInv
  <2>1. PICK j \in DOMAIN viewers : viewers[j].res = q /\ ~viewers[j].isClosed
    BY DEF ViewersInv, EntriesInv
  <2>2. j # i
    BY <2>1
  <2> QED  BY <1>3, <2>1, <2>2
<1>5. ServeInv'
  <2> SUFFICES ASSUME NEW j \in DOMAIN viewers, Sole(j)' PROVE EntryServed(j)'
    BY <1>3 DEF ServeInv
  <2>1. j # i /\ viewers'[j] = viewers[j]
    BY <1>1, <1>3 DEF Sole
  <2>2. viewers[j].res \in open /\ viewers[j].res # viewers[i].res /\ ~viewers[j].isClosed
    BY <2>1 DEF Sole
  <2>3. ASSUME NEW k \in DOMAIN viewers, ~viewers[k].isClosed, viewers[k].res = viewers[j].res
        PROVE  k = j
    <3>1. k # i /\ viewers'[k] = viewers[k]
      BY <1>3, <2>2, <2>3
    <3> QED  BY <1>3, <2>1, <2>3, <3>1 DEF Sole
  <2>4. Sole(j)
    BY <2>2, <2>3 DEF Sole
  <2>5. Passed(j)' = Passed(j)
    BY <2>1, Parts DEF Passed
  <2> QED  BY <2>1, <2>4, <2>5, EntryKept DEF ViewersInv, ServeInv
<1> QED  BY <1>4, <1>5

\* A set of places in the list has a first one.
LEMMA FirstOf ==
    ASSUME NEW S \in SUBSET Nat, S # {}
    PROVE  Min(S) \in S
<1>1. IsWellFoundedOn(OpToRel(<, Nat), Nat)
  BY NatLessThanWellFounded
<1>2. PICK m \in S : \A k \in S : <<k, m>> \notin OpToRel(<, Nat)
  BY <1>1, WFMin, Zenon
<1>3. \A k \in S : m <= k
  <2> TAKE k \in S
  <2>1. ~(k < m)
    BY <1>2 DEF OpToRel
  <2> QED  BY <2>1
<1> QED  BY <1>3 DEF Min

LEMMA AbortedStep ==
    ASSUME ViewersInv, UNCHANGED maxOutgoing, NEW r \in Responses, Aborted(r)
    PROVE  EntriesInv' /\ LoopInv' /\ ServeInv'
<1>1. /\ r \in open /\ open' = open \ {r}
      /\ UNCHANGED <<net, nextRead, available, content, next_viewer, joined, got>>
  BY DEF Aborted, ringVars, tickVars
<1>2. Entries(r) # {}
  BY <1>1 DEF ViewersInv, EntriesInv, Entries
<1>3. Entries(r) \in SUBSET Nat
  BY Parts DEF Entries
<1>4. PICK i \in DOMAIN viewers : i = Min(Entries(r)) /\ viewers[i].res = r
  BY <1>2, <1>3, FirstOf DEF Entries
<1>5. viewers' = [viewers EXCEPT ![i].isClosed = TRUE]
  BY <1>2, <1>4 DEF Aborted
<1>6. viewers' = [viewers EXCEPT ![i] = [viewers[i] EXCEPT !.isClosed = TRUE]]
  BY <1>5
<1>7. LoopInv'
  BY <1>1 DEF ViewersInv, LoopInv
<1> QED  BY <1>1, <1>4, <1>6, <1>7, ClosedStep

\* The turn of one viewer: the others were offered what they were, and this one frame
\* more.
LEMMA ServedStep ==
    ASSUME ViewersInv, UNCHANGED maxOutgoing,
           SkipClosed \/ Evict \/ Write \/ Lag \/ SkipSent
    PROVE  EntriesInv' /\ LoopInv' /\ ServeInv'
<1>0. Serving /\ Served
  BY DEF SkipClosed, Evict, Write, Lag, SkipSent
<1>1. /\ net = "tick" /\ nextRead <= available /\ content[nextRead]
      /\ next_viewer' = next_viewer + 1
      /\ UNCHANGED <<net, nextRead, available, content>>
  BY <1>0 DEF Serving, Served, ringVars
<1>2. PICK i \in DOMAIN viewers : i = next_viewer
  BY <1>0, CurrentType DEF ViewersInv
<1>3. /\ current = viewers[i] /\ current \in ViewerType /\ current.res \in Responses
      /\ currentFrameId = nextRead % IdModulus
  BY <1>0, <1>2, CurrentType DEF ViewersInv, currentFrameId
<1>4. /\ Passed(i) = nextRead - 1 /\ Passed(i)' = nextRead
      /\ \A j \in DOMAIN viewers : j # i => Passed(j)' = Passed(j)
  BY <1>1, <1>2, Parts DEF Passed
<1>5. LoopInv'
  BY <1>1 DEF LoopInv
<1>6. /\ nextRead - 1 \in Int /\ nextRead - 1 >= -1 /\ (nextRead - 1) + 1 = nextRead
      /\ joined[current.res] \in Nat /\ got[current.res] \in Seq(Nat)
      /\ write_offset[current.res] \in Nat /\ maxOutgoing \in Nat
  BY <1>3, Parts, SMTT(60)
<1>7. Sole(i) => Promise(current, nextRead - 1, content, joined[current.res],
                         got[current.res], maxOutgoing)
  BY <1>2, <1>3, <1>4 DEF ViewersInv, ServeInv, EntryServed
<1>8. CASE SkipClosed \/ SkipSent
  <2>1. UNCHANGED <<viewers, open, joined, got>>
    BY <1>8 DEF SkipClosed, SkipSent, connVars
  <2>2. EntriesInv'
    BY <2>1 DEF ViewersInv, EntriesInv
  <2>3. \A j \in DOMAIN viewers : Sole(j)' => Sole(j)
    BY <2>1 DEF Sole
  <2>4. ASSUME NEW j \in DOMAIN viewers, Sole(j), j # i
        PROVE  EntryServed(j)'
    BY <1>1, <1>4, <2>1, <2>4, EntryKept DEF ViewersInv, ServeInv
  <2>5. ASSUME Sole(i) PROVE EntryServed(i)'
    <3>1. ~viewers[i].isClosed
      BY <2>5 DEF Sole
    <3>2. ~current.isClosed /\ current.lastSentFrameId >= nextRead % IdModulus
      BY <1>3, <1>8, <3>1 DEF SkipClosed, SkipSent
    <3>3. Promise(current, nextRead, content, joined[current.res], got[current.res],
                  maxOutgoing)
      BY <1>3, <1>6, <1>7, <2>5, <3>2, PromisePassed
    <3> QED  BY <1>1, <1>3, <1>4, <2>1, <3>3 DEF EntryServed
  <2> QED  BY <1>5, <2>1, <2>2, <2>4, <2>5, <2>3 DEF ServeInv
<1>9. CASE Evict
  <2>1. /\ open' = open \ {viewers[i].res}
        /\ viewers' = [viewers EXCEPT ![i] = [viewers[i] EXCEPT !.isClosed = TRUE]]
        /\ UNCHANGED <<joined, got>>
    BY <1>2, <1>3, <1>9 DEF Evict
  <2> QED  BY <1>1, <1>2, <1>5, <2>1, ClosedStep
<1>10. CASE Write \/ Lag
  <2>1. ~current.isClosed /\ UNCHANGED <<open, joined>>
        /\ viewers' = [viewers EXCEPT ![i] = SentViewer]
    BY <1>0, <1>2, <1>10, SentIs DEF Write, Lag, ViewersInv, connVars
  <2>2. /\ SentViewer \in ViewerType
        /\ SentViewer.res = current.res /\ SentViewer.isClosed = current.isClosed
        /\ SentViewer.lastSentFrameId = nextRead % IdModulus
        /\ SentViewer.isLagging = (write_offset[current.res] > 0)
    BY <1>0, <1>3, SentIs DEF ViewersInv
  <2>3. /\ DOMAIN viewers' = DOMAIN viewers /\ viewers'[i] = SentViewer
        /\ \A j \in DOMAIN viewers : j # i => viewers'[j] = viewers[j]
    <3> HIDE DEF SentViewer
    <3> QED  BY <2>1, <2>2, Parts, ViewerChanged
  <2>4. \A j \in DOMAIN viewers : viewers'[j].res = viewers[j].res
                                  /\ viewers'[j].isClosed = viewers[j].isClosed
    BY <1>3, <2>2, <2>3
  <2>5. EntriesInv'
    BY <2>1, <2>3, <2>4 DEF ViewersInv, EntriesInv
  <2>6. \A r \in Responses : r # current.res => got'[r] = got[r]
    BY <1>6, <1>10 DEF Write, Lag, connVars, ViewersInv, TypeOK
  <2>7. \A j \in DOMAIN viewers : Sole(j)' => Sole(j)
    BY <2>1, <2>3, <2>4 DEF Sole
  <2>8. ASSUME NEW j \in DOMAIN viewers, Sole(j), j # i
        PROVE  EntryServed(j)'
    <3>1. viewers[j].res # current.res /\ viewers[j].res \in Responses
      BY <1>3, <2>1, <2>8, Parts DEF Sole
    <3> QED
      BY <1>1, <1>4, <2>1, <2>3, <2>6, <2>8, <3>1, EntryKept DEF ViewersInv, ServeInv
  <2>9. ASSUME Sole(i)
        PROVE  Promise(SentViewer, nextRead, content, joined[current.res],
                       got'[current.res], maxOutgoing)
    <3>1. CASE Write
      <4>1. got'[current.res] = Append(got[current.res], nextRead)
        BY <1>3, <3>1 DEF Write, ViewersInv, TypeOK
      <4> HIDE DEF SentViewer
      <4> QED  BY <1>1, <1>6, <1>7, <2>2, <2>9, <4>1, PromiseWritten
    <3>2. CASE Lag
      <4>1. write_offset[current.res] > 0 /\ ~(write_offset[current.res] > maxOutgoing)
            /\ UNCHANGED got
        BY <3>2 DEF Lag, tooSlow, connVars
      <4>2. maxOutgoing # 0 /\ SentViewer.isLagging = TRUE
        BY <1>6, <2>2, <4>1
      <4> HIDE DEF SentViewer
      <4> QED  BY <1>6, <1>7, <2>2, <2>9, <4>1, <4>2, PromiseLagged
    <3> QED  BY <1>10, <3>1, <3>2
  <2>10. Sole(i) => EntryServed(i)'
    BY <1>1, <1>3, <1>4, <2>1, <2>2, <2>3, <2>9 DEF EntryServed
  <2> QED  BY <1>5, <2>3, <2>5, <2>8, <2>10, <2>7 DEF ServeInv
<1> QED  BY <1>8, <1>9, <1>10

\* The loop over the frames: what it steps over is past for every viewer.
LEMMA FramesStep ==
    ASSUME ViewersInv, UNCHANGED maxOutgoing, StartBatch \/ NextFrame
    PROVE  EntriesInv' /\ LoopInv' /\ ServeInv'
<1>1. /\ next_viewer' = 1 /\ net' = "tick"
      /\ UNCHANGED <<viewers, open, joined, got, content>>
  BY DEF StartBatch, NextFrame, connVars, ringVars
<1>2. EntriesInv' /\ LoopInv'
  BY <1>1 DEF ViewersInv, EntriesInv, LoopInv
<1>3. \A i \in DOMAIN viewers : Passed(i)' = nextRead' - 1
  BY <1>1, Parts DEF Passed
<1>4. ASSUME NEW i \in DOMAIN viewers, Sole(i)' PROVE EntryServed(i)'
  <2>1. Sole(i)
    BY <1>1, <1>4 DEF Sole
  <2>2. EntryServed(i)
    BY <2>1 DEF ViewersInv, ServeInv
  <2>3. CASE Passed(i) = nextRead' - 1
    BY <1>1, <1>3, <2>2, <2>3, EntryKept
  <2>4. CASE Passed(i) # nextRead' - 1
    <3>1. NextFrame
      BY <2>4 DEF StartBatch, Passed
    <3>2. ~content[nextRead] /\ nextRead' = nextRead + 1 /\ Passed(i) = nextRead - 1
      BY <2>4, <3>1, Parts DEF NextFrame, Passed
    <3> DEFINE r == viewers[i].res
    <3>3. Promise(viewers[i], nextRead - 1, content, joined[r], got[r], maxOutgoing)
      BY <2>2, <3>2 DEF EntryServed
    <3>4. /\ nextRead - 1 \in Int /\ nextRead - 1 >= -1 /\ (nextRead - 1) + 1 = nextRead
          /\ nextRead' - 1 = nextRead
          /\ viewers[i] \in ViewerType /\ joined[r] \in Nat /\ got[r] \in Seq(Nat)
      <4>1. nextRead \in Nat
        BY Parts
      <4>2. viewers[i] \in ViewerType /\ joined[r] \in Nat /\ got[r] \in Seq(Nat)
        BY Parts
      <4> QED  BY <3>2, <4>1, <4>2
    <3>5. Promise(viewers[i], nextRead, content, joined[r], got[r], maxOutgoing)
      <4> HIDE DEF r
      <4> QED  BY <3>2, <3>3, <3>4, PromisePassed
    <3> QED  BY <1>1, <1>3, <3>4, <3>5 DEF EntryServed
  <2> QED  BY <2>3, <2>4
<1> QED  BY <1>1, <1>2, <1>4 DEF ServeInv

\* Every connection that watches is closed with its entry.
LEMMA CloseStep ==
    ASSUME ViewersInv, UNCHANGED maxOutgoing, Close
    PROVE  EntriesInv' /\ LoopInv' /\ ServeInv'
<1>1. \A r \in open : \E i \in {j \in DOMAIN viewers : ~viewers[j].isClosed} : viewers[i].res = r
  BY DEF ViewersInv, EntriesInv
<1>2. open' = {} /\ viewers' = <<>> /\ net' = "closed"
  BY <1>1 DEF Close
<1>3. DOMAIN viewers' = {}
  BY <1>2
<1> QED  BY <1>2, <1>3 DEF EntriesInv, LoopInv, ServeInv

\* What erase_if drops is of no connection; what it keeps has passed all that was there.
LEMMA EraseStep ==
    ASSUME ViewersInv, UNCHANGED maxOutgoing, EndBatch
    PROVE  EntriesInv' /\ LoopInv' /\ ServeInv'
<1>1. /\ net = "tick" /\ net' = "loop" /\ nextRead > available
      /\ UNCHANGED <<nextRead, next_viewer, available, content, open, joined, got>>
  BY DEF EndBatch, ringVars, tickVars, connVars
<1>2. PICK at \in [DOMAIN viewers' -> Kept] :
        /\ \A i, j \in DOMAIN viewers' : i < j => at[i] < at[j]
        /\ \A i \in Kept : \E j \in DOMAIN viewers' : at[j] = i
        /\ \A i \in DOMAIN viewers' : viewers'[i] = viewers[at[i]]
  BY Erased, Parts DEF EndBatch
<1>3. \A i \in DOMAIN viewers' : /\ at[i] \in DOMAIN viewers
                                 /\ ~viewers[at[i]].isClosed
                                 /\ viewers'[i] = viewers[at[i]]
  BY <1>2 DEF Kept
<1>4. next_viewer = 1
  BY <1>1, Parts DEF ViewersInv, LoopInv
<1>5. EntriesInv'
  <2>1. ASSUME NEW r \in open
        PROVE  \E j \in DOMAIN viewers' : viewers'[j].res = r /\ ~viewers'[j].isClosed
    <3>1. PICK i \in DOMAIN viewers : viewers[i].res = r /\ ~viewers[i].isClosed
      BY DEF ViewersInv, EntriesInv
    <3>2. PICK j \in DOMAIN viewers' : at[j] = i
      BY <1>2, <3>1 DEF Kept
    <3> QED  BY <1>3, <3>1, <3>2
  <2> QED  BY <1>1, <2>1 DEF EntriesInv
<1>6. LoopInv'
  BY <1>1 DEF LoopInv
<1>7. ASSUME NEW j \in DOMAIN viewers', Sole(j)' PROVE EntryServed(j)'
  <2>1. PICK i \in DOMAIN viewers : i = at[j]
    BY <1>3
  <2>2. viewers'[j] = viewers[i] /\ ~viewers[i].isClosed
    BY <1>3, <2>1
  <2>3. Passed(i) = nextRead - 1
    BY <1>4, Parts DEF Passed
  <2>4. Passed(j)' = nextRead - 1
    BY <1>1 DEF Passed
  <2>5. Sole(i)
    <3>1. viewers[i].res \in open /\ ~viewers[i].isClosed
      BY <1>1, <1>7, <2>2 DEF Sole
    <3>2. ASSUME NEW k \in DOMAIN viewers, ~viewers[k].isClosed,
                 viewers[k].res = viewers[i].res
          PROVE  k = i
      <4>1. PICK l \in DOMAIN viewers' : at[l] = k
        BY <1>2, <3>2 DEF Kept
      <4>2. l = j
        BY <1>3, <1>7, <2>2, <3>2, <4>1 DEF Sole
      <4> QED  BY <2>1, <4>1, <4>2
    <3> QED  BY <3>1, <3>2 DEF Sole
  <2> QED  BY <1>1, <2>2, <2>3, <2>4, <2>5, EntryKept DEF ViewersInv, ServeInv
<1> QED  BY <1>5, <1>6, <1>7 DEF ServeInv

LEMMA ViewersStep == ViewersInv /\ [Next]_vars => ViewersInv'
<1> SUFFICES ASSUME ViewersInv, [Next]_vars PROVE ViewersInv'
  OBVIOUS
<1>1. TypeOK'
  BY TypeStep DEF ViewersInv
<1>2. UNCHANGED maxOutgoing
  BY DEF Next, vars
<1>3. EntriesInv' /\ LoopInv' /\ ServeInv'
  <2>1. CASE Timer
    BY <1>2, <2>1, CloseStep, FramesStep, ServedStep, EraseStep DEF Timer
  <2>2. ASSUME NEW r \in Responses, Stream(r) \/ Aborted(r)
        PROVE  EntriesInv' /\ LoopInv' /\ ServeInv'
    BY <1>2, <2>2, StreamStep, AbortedStep
  <2>3. CASE Publish \/ Signal \/ (\E r \in Responses : Drained(r)) \/ UNCHANGED vars
    BY <1>2, <2>3, WorldStep
  <2> QED  BY <2>1, <2>2, <2>3 DEF Next, Over
<1> QED  BY <1>1, <1>3 DEF ViewersInv

LEMMA SpecViewersInv == Spec => []ViewersInv
  BY InitViewersInv, ViewersStep, PTL DEF Spec

-----------------------------------------------------------------------------
\* Every connection that watches has an entry that is not closed, for any number of them
\* and however addresses come back.
THEOREM WhoWatchesIsListed == Spec => []WatchersListed
<1>1. ViewersInv => WatchersListed
  BY DEF ViewersInv, EntriesInv, WatchersListed, OpenEntries, Entries
<1> QED  BY <1>1, SpecViewersInv, PTL

\* An open entry that is the only one of its connection.
LEMMA SoleIs ==
    ASSUME NEW r \in open, NEW i \in OpenEntries(r), OpenEntries(r) = {i}
    PROVE  i \in DOMAIN viewers /\ viewers[i].res = r /\ Sole(i)
<1>1. i \in DOMAIN viewers /\ viewers[i].res = r /\ ~viewers[i].isClosed
  BY DEF OpenEntries, Entries
<1>2. \A j \in DOMAIN viewers : ~viewers[j].isClosed /\ viewers[j].res = r => j \in {i}
  BY DEF OpenEntries, Entries
<1> QED  BY <1>1, <1>2 DEF Sole

\* A viewer that no other open entry has the address of is sent the frames of the stream
\* in their order, none twice, none from before it joined and no slot of a frame that was
\* dropped, for any number of viewers and frames.
THEOREM SentInOrder == Spec => []DeliveredInOrder
<1>1. ViewersInv => DeliveredInOrder
  <2> SUFFICES ASSUME ViewersInv, NEW r \in open, NEW i \in OpenEntries(r),
                      OpenEntries(r) = {i}
               PROVE  /\ \A k \in 1 .. Len(got[r]) - 1 : got[r][k] < got[r][k + 1]
                      /\ net = "loop" => Range(got[r]) \subseteq Due(r)
    BY DEF DeliveredInOrder
  <2>1. i \in DOMAIN viewers /\ viewers[i].res = r /\ Sole(i)
    BY SoleIs
  <2>2. InOrder(Passed(i), content, joined[r], got[r])
    BY <2>1 DEF ViewersInv, ServeInv, EntryServed, Promise
  <2>3. got[r] \in Seq(Nat)
    BY <2>1, Parts
  <2>4. DOMAIN got[r] = 1 .. Len(got[r])
    BY <2>3, LenProperties
  <2>5. net = "loop" => Passed(i) = nextRead - 1
    BY DEF Passed
  <2> QED  BY <2>2, <2>4, <2>5 DEF InOrder, Due, Range
<1> QED  BY <1>1, SpecViewersInv, PTL

\* After each batch such a viewer, if it does not lag, has the latest frame it could have been
\* sent, and without a queue it has had every one since it joined, whatever other viewers
\* do, for any number of viewers and frames, until the ids wrap.
THEOREM NoViewerBehind == Spec => []UpToDate
<1>1. ViewersInv => UpToDate
  <2> SUFFICES ASSUME ViewersInv, net = "loop", nextRead <= IdModulus,
                      NEW r \in open, NEW i \in OpenEntries(r), OpenEntries(r) = {i}
               PROVE  LET due == Due(r) \ {0}
                      IN  /\ ~viewers[i].isLagging /\ due # {} =>
                                got[r] # <<>> /\ Last(got[r]) = Max(due)
                          /\ maxOutgoing = 0 => due \subseteq Range(got[r])
    BY DEF UpToDate
  <2> DEFINE due == Due(r) \ {0}  g == got[r]
  <2>1. i \in DOMAIN viewers /\ viewers[i].res = r /\ Sole(i)
    BY SoleIs
  <2>2. nextRead \in Nat /\ g \in Seq(Nat) /\ joined[r] \in Nat /\ IdModulus \in Nat
    BY <2>1, Parts, Bounds
  <2>3. Passed(i) = nextRead - 1 /\ nextRead - 1 < IdModulus
    BY <2>2 DEF Passed
  <2>4. /\ InOrder(nextRead - 1, content, joined[r], g)
        /\ Current(viewers[i], nextRead - 1, content, joined[r], g, maxOutgoing)
    BY <2>1, <2>3 DEF ViewersInv, ServeInv, EntryServed, Promise
  <2>5. due = {s \in joined[r] .. nextRead - 1 : content[s] /\ s # 0}
    BY DEF Due
  <2>6. /\ ~viewers[i].isLagging => \A s \in due : g # <<>> /\ s <= g[Len(g)]
        /\ maxOutgoing = 0 => \A s \in due : \E k \in 1 .. Len(g) : g[k] = s
    BY <2>3, <2>4, <2>5 DEF Current
  <2>7. /\ DOMAIN g = 1 .. Len(g) /\ Len(g) \in Nat
        /\ g # <<>> => Len(g) > 0
    BY <2>2, LenProperties, EmptySeq
  <2>8. ASSUME ~viewers[i].isLagging, due # {} PROVE g # <<>> /\ Last(g) = Max(due)
    <3>1. PICK s \in due : TRUE
      BY <2>8
    <3>2. g # <<>> /\ s <= g[Len(g)] /\ Len(g) > 0
      BY <2>6, <2>7, <2>8
    <3> DEFINE last == g[Len(g)]
    <3>3. last \in joined[r] .. nextRead - 1 /\ content[last]
      BY <2>4, <2>7, <3>2 DEF InOrder
    <3>4. last \in due
      BY <2>2, <2>5, <3>2, <3>3
    <3>5. \A t \in due : t <= last /\ t \in Nat
      BY <2>2, <2>5, <2>6, <2>8
    <3> HIDE DEF due, last
    <3>6. Max(due) = last
      BY <3>4, <3>5 DEF Max
    <3> QED  BY <3>2, <3>6 DEF last, Last
  <2>9. ASSUME maxOutgoing = 0 PROVE due \subseteq Range(g)
    BY <2>6, <2>7, <2>9 DEF Range
  <2> QED  BY <2>8, <2>9
<1> QED  BY <1>1, SpecViewersInv, PTL
=============================================================================
