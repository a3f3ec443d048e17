--------------------------- MODULE V4l2ServerProofs ---------------------------
(***************************************************************************)
(* Proofs about V4l2Server, for any buffers, capacity of the ring and      *)
(* number of frames, and whatever may fail: types, that the worker keeps   *)
(* no buffer but the one it handles, and that what the server is shown is  *)
(* one whole frame, once.                                                  *)
(***************************************************************************)
EXTENDS V4l2Server, FiniteSetTheorems, TLAPS

\* Where the threads are.
Places ==
    /\ running \in BOOLEAN /\ plugged \in BOOLEAN
    /\ main \in {"options", "open", "map", "starting", "start", "bind", "operational",
                "join_network", "stopping", "exited"}
    /\ src \in {"idle", "loop", "select", "dequeue", "handler", "claim", "copy",
               "copy_rest", "publish", "enqueue", "ended"}
    /\ net \in {"idle", "bind", "tick", "poll", "read", "ended"}

\* The worker has dequeued a buffer in these, and its frame is not in a slot yet in those.
Holding == {"handler", "claim", "copy", "copy_rest", "publish", "enqueue"}
Copying == {"handler", "claim", "copy", "copy_rest"}

\* The worker runs between the start of main() and its join, while the device is on.
OnInv ==
    /\ main \in {"options", "open", "map", "starting", "start"} => src = "idle"
    /\ main \in {"bind", "operational"} => src # "idle"
    /\ main \in {"join_network", "stopping", "exited"} => src \in {"idle", "ended"}
    /\ main \in {"start", "bind", "operational", "join_network"} =>
           phase = "on" /\ mapped = Buffers
    /\ main \in {"options", "open", "map"} => phase = "off"
    /\ main = "starting" => mapped = Buffers

\* The buffers: types, and who has them.
OwnerInv ==
    /\ phase \in {"off", "starting", "on", "stopping"}
    /\ owner \in [Buffers -> {"user", "device", "done"}]
    /\ good \subseteq {b \in Buffers : owner[b] = "done"}
    /\ mapped \subseteq Buffers
    /\ IF src \in Holding THEN held \in Buffers /\ owner[held] = "user"
                          ELSE held = NoBuffer
    /\ main \in {"options", "open"} => mapped = {}
    /\ plugged /\ main \in {"options", "open", "map"} =>
           \A b \in Buffers : owner[b] = "user" <=> b \notin mapped
    /\ plugged /\ main \in {"starting", "start", "bind", "operational", "join_network"} =>
           \A b \in Buffers : owner[b] = "user" => b = held

\* Every claimed sequence is that of a frame the device gave back without ERROR.
CountInv ==
    /\ IsFiniteSet(good)
    /\ filled \in 0 .. MaxFrames
    /\ claimed + 1 + Cardinality(good) + (IF src \in {"handler", "claim"} THEN 1 ELSE 0)
           <= filled

\* What is published, read and given back.
ReadInv ==
    /\ claimed \in Int /\ published \in Int /\ available \in Int
    /\ consumed \in Int /\ nextRead \in Int
    /\ claimed = published + (IF src \in {"copy", "copy_rest", "publish"} THEN 1 ELSE 0)
    /\ -1 <= available /\ available <= published
    /\ -1 <= consumed /\ consumed <= published
    /\ nextRead = consumed + 1
    /\ net = "read" => nextRead <= available
    /\ claimed - consumed <= Capacity

\* The buffers whose frames have yet to be copied; one of no bytes has none.
Pending == {b \in good \cup (IF src \in Copying THEN {held} ELSE {}) : memory[b] # NoFrame}

\* The last sequence whose slot is written.
Written == IF src \in {"copy", "copy_rest"} THEN claimed - 1 ELSE claimed

\* A frame is in one place, a buffer to be copied or a slot; the one being copied may be
\* in its slot by half.
FrameInv ==
    /\ memory \in [Buffers -> 0 .. MaxFrames]
    /\ slot \in [Sequences -> (0 .. MaxFrames) \X (0 .. MaxFrames)]
    /\ \A b \in Pending : memory[b] \in 1 .. filled
    /\ \A b \in Pending, c \in Pending : memory[b] = memory[c] => b = c
    /\ \A s \in 0 .. Written :
           /\ slot[s][1] = slot[s][2] /\ slot[s][1] \in 1 .. filled
           /\ \A b \in Pending : memory[b] # slot[s][1]
    /\ \A r \in 0 .. Written, s \in 0 .. Written : slot[r][1] = slot[s][1] => r = s
    /\ src \in Copying \ {"handler"} => memory[held] # NoFrame
    /\ src = "copy_rest" => slot[claimed][1] = memory[held]

IInv == Places /\ OnInv /\ OwnerInv /\ CountInv /\ ReadInv /\ FrameInv


USE BuffersAssumption, CountsAssumption DEF Holding, Copying, NoFrame,
        appVars, queueVars, deviceVars, srcVars, ringVars, netVars

\* The frames that are whole and not dequeued can be counted.
LEMMA GoodCount == CountInv => Cardinality(good) \in Nat
BY FS_CardinalityType DEF CountInv

\* The first half of one entry changes, nothing else.
LEMMA FirstHalf ==
  ASSUME NEW S, NEW T, NEW f \in [T -> S \X S], NEW c \in T, NEW v \in S,
         NEW g, g = [f EXCEPT ![c][1] = v]
  PROVE  /\ g \in [T -> S \X S]
         /\ g[c][1] = v /\ g[c][2] = f[c][2]
         /\ \A s \in T \ {c} : g[s] = f[s]
<1>1. g \in [T -> S \X S] BY SMT
<1>2. g[c][1] = v BY SMT
<1>3. g[c][2] = f[c][2] BY SMT
<1>4. \A s \in T \ {c} : g[s] = f[s] BY SMT
<1> QED BY <1>1, <1>2, <1>3, <1>4

\* The second half of one entry changes, nothing else.
LEMMA SecondHalf ==
  ASSUME NEW S, NEW T, NEW f \in [T -> S \X S], NEW c \in T, NEW v \in S,
         NEW g, g = [f EXCEPT ![c][2] = v]
  PROVE  /\ g \in [T -> S \X S]
         /\ g[c][1] = f[c][1] /\ g[c][2] = v
         /\ \A s \in T \ {c} : g[s] = f[s]
<1>1. g \in [T -> S \X S] BY SMT
<1>2. g[c][2] = v BY SMT
<1>3. g[c][1] = f[c][1] BY SMT
<1>4. \A s \in T \ {c} : g[s] = f[s] BY SMT
<1> QED BY <1>1, <1>2, <1>3, <1>4

\* Nothing is open yet.
LEMMA ParseOptionsStep ==
  ASSUME IInv, ParseOptions
  PROVE  IInv'
<1>1. Places'
  BY DEF IInv, Places, ParseOptions
<1>2. OnInv'
  BY DEF IInv, OnInv, ParseOptions
<1>3. OwnerInv'
  BY DEF IInv, OwnerInv, ParseOptions
<1>4. CountInv' /\ ReadInv' /\ FrameInv'
  BY DEF IInv, CountInv, ReadInv, FrameInv, Pending, Written, ParseOptions
<1> QED BY <1>1, <1>2, <1>3, <1>4 DEF IInv

\* Nothing is mapped yet.
LEMMA OpenDeviceStep ==
  ASSUME IInv, OpenDevice
  PROVE  IInv'
<1>1. Places'
  BY DEF IInv, Places, OpenDevice, ConstructorThrows
<1>2. OnInv'
  BY DEF IInv, OnInv, OpenDevice, ConstructorThrows
<1>3. OwnerInv'
  BY DEF IInv, OwnerInv, OpenDevice, ConstructorThrows
<1>4. CountInv' /\ ReadInv' /\ FrameInv'
  BY DEF IInv, CountInv, ReadInv, FrameInv, Pending, Written, OpenDevice,
        ConstructorThrows
<1> QED BY <1>1, <1>2, <1>3, <1>4 DEF IInv

\* A buffer is mapped and queued.
LEMMA MapBufferStep ==
  ASSUME IInv, NEW b \in Buffers, MapBuffer(b)
  PROVE  IInv'
<1>1. OnInv'
  BY DEF IInv, OnInv, MapBuffer, Requeue, Device!Queue, Device!vars
<1>2. OwnerInv'
  BY DEF IInv, OwnerInv, OnInv, MapBuffer, Requeue, Device!Queue, Device!vars
<1>3. CountInv'
  BY DEF IInv, CountInv, MapBuffer, Requeue, Device!Queue, Device!vars
<1>4. FrameInv'
  BY DEF IInv, FrameInv, Pending, Written, MapBuffer, Requeue, Device!Queue,
        Device!vars
<1>5. Places' /\ ReadInv'
  BY DEF IInv, Places, ReadInv, MapBuffer, Requeue, Device!Queue, Device!vars
<1> QED BY <1>1, <1>2, <1>3, <1>4, <1>5 DEF IInv

\* All buffers are mapped.
LEMMA StreamonStep ==
  ASSUME IInv, Streamon
  PROVE  IInv'
<1>1. Places'
  BY DEF IInv, Places, Streamon, Device!Start
<1>2. OnInv'
  BY DEF IInv, OnInv, Streamon, Device!Start
<1>3. OwnerInv'
  BY DEF IInv, OwnerInv, Streamon, Device!Start
<1>4. CountInv' /\ ReadInv' /\ FrameInv'
  BY DEF IInv, CountInv, ReadInv, FrameInv, Pending, Written, Streamon,
        Device!Start
<1> QED BY <1>1, <1>2, <1>3, <1>4 DEF IInv

\* The device is on, or the program ends.
LEMMA StreamonReturnsStep ==
  ASSUME IInv, StreamonReturns
  PROVE  IInv'
<1>1. Places'
  BY DEF IInv, Places, StreamonReturns, Device!StartReturns,
        ConstructorThrows
<1>2. OnInv'
  BY DEF IInv, OnInv, StreamonReturns, Device!StartReturns, ConstructorThrows
<1>3. OwnerInv'
  BY DEF IInv, OwnerInv, StreamonReturns, Device!StartReturns,
        ConstructorThrows
<1>4. CountInv' /\ ReadInv' /\ FrameInv'
  BY DEF IInv, CountInv, ReadInv, FrameInv, Pending, Written,
        StreamonReturns, Device!StartReturns, ConstructorThrows
<1> QED BY <1>1, <1>2, <1>3, <1>4 DEF IInv

\* The worker starts with no buffer.
LEMMA StartSourceStep ==
  ASSUME IInv, StartSource
  PROVE  IInv'
<1>1. Places'
  BY DEF IInv, Places, StartSource
<1>2. OnInv'
  BY DEF IInv, OnInv, StartSource
<1>3. OwnerInv'
  BY DEF IInv, OwnerInv, OnInv, StartSource
<1>4. CountInv'
  BY DEF IInv, CountInv, OnInv, StartSource
<1>5. ReadInv'
  BY DEF IInv, ReadInv, OnInv, StartSource
<1>6. FrameInv'
  BY DEF IInv, FrameInv, Pending, Written, OnInv, StartSource
<1> QED BY <1>1, <1>2, <1>3, <1>4, <1>5, <1>6 DEF IInv

\* Nothing changes for the worker.
LEMMA ServerStartedStep ==
  ASSUME IInv, ServerStarted
  PROVE  IInv'
<1>1. Places'
  BY DEF IInv, Places, ServerStarted
<1>2. OnInv'
  BY DEF IInv, OnInv, ServerStarted
<1>3. OwnerInv'
  BY DEF IInv, OwnerInv, ServerStarted
<1>4. CountInv' /\ ReadInv' /\ FrameInv'
  BY DEF IInv, CountInv, ReadInv, FrameInv, Pending, Written, ServerStarted
<1> QED BY <1>1, <1>2, <1>3, <1>4 DEF IInv

\* The worker has ended.
LEMMA StopSourceStep ==
  ASSUME IInv, StopSource
  PROVE  IInv'
<1>1. Places'
  BY DEF IInv, Places, StopSource
<1>2. OnInv'
  BY DEF IInv, OnInv, StopSource
<1>3. OwnerInv'
  BY DEF IInv, OwnerInv, StopSource
<1>4. CountInv' /\ ReadInv' /\ FrameInv'
  BY DEF IInv, CountInv, ReadInv, FrameInv, Pending, Written, StopSource
<1> QED BY <1>1, <1>2, <1>3, <1>4 DEF IInv

\* The worker has ended.
LEMMA StreamoffStep ==
  ASSUME IInv, Streamoff
  PROVE  IInv'
<1>1. Places'
  BY DEF IInv, Places, Streamoff, Device!Stop
<1>2. OnInv'
  BY DEF IInv, OnInv, Streamoff, Device!Stop
<1>3. OwnerInv'
  BY DEF IInv, OwnerInv, Streamoff, Device!Stop
<1>4. CountInv' /\ ReadInv' /\ FrameInv'
  BY DEF IInv, CountInv, ReadInv, FrameInv, Pending, Written, Streamoff,
        Device!Stop
<1> QED BY <1>1, <1>2, <1>3, <1>4 DEF IInv

\* The buffers come back when nobody handles one.
LEMMA StreamoffReturnsStep ==
  ASSUME IInv, StreamoffReturns
  PROVE  IInv'
<1>1. OnInv'
  BY DEF IInv, OnInv, StreamoffReturns, Device!StopReturns
<1>2. OwnerInv'
  BY DEF IInv, OwnerInv, StreamoffReturns, Device!StopReturns
<1>3. CountInv'
  <2>1. good' = {} /\ UNCHANGED <<filled, claimed, src>>
    BY DEF StreamoffReturns, Device!StopReturns
  <2>2. IsFiniteSet({}) /\ Cardinality({}) = 0
    BY FS_EmptySet
  <2> QED BY <2>1, <2>2, GoodCount DEF IInv, CountInv, ReadInv
<1>4. FrameInv'
  BY DEF IInv, FrameInv, Pending, Written, StreamoffReturns,
        Device!StopReturns
<1>5. Places' /\ ReadInv'
  BY DEF IInv, Places, ReadInv, StreamoffReturns, Device!StopReturns
<1> QED BY <1>1, <1>2, <1>3, <1>4, <1>5 DEF IInv

\* The worker has ended.
LEMMA UnmapStep ==
  ASSUME IInv, Unmap
  PROVE  IInv'
<1>1. Places'
  BY DEF IInv, Places, Unmap
<1>2. OnInv'
  BY DEF IInv, OnInv, Unmap
<1>3. OwnerInv'
  BY DEF IInv, OwnerInv, Unmap
<1>4. CountInv' /\ ReadInv' /\ FrameInv'
  BY DEF IInv, CountInv, ReadInv, FrameInv, Pending, Written, Unmap
<1> QED BY <1>1, <1>2, <1>3, <1>4 DEF IInv

\* The worker holds no buffer.
LEMMA LoopStep ==
  ASSUME IInv, Loop
  PROVE  IInv'
<1>1. Places'
  BY DEF IInv, Places, Loop, SrcAt, srcUnchanged
<1>2. OnInv'
  BY DEF IInv, OnInv, Loop, SrcAt, srcUnchanged
<1>3. OwnerInv'
  BY DEF IInv, OwnerInv, Loop, SrcAt, srcUnchanged
<1>4. CountInv'
  BY DEF IInv, CountInv, Loop, SrcAt, srcUnchanged
<1>5. ReadInv'
  BY DEF IInv, ReadInv, Loop, SrcAt, srcUnchanged
<1>6. FrameInv'
  BY DEF IInv, FrameInv, Pending, Written, Loop, SrcAt, srcUnchanged
<1> QED BY <1>1, <1>2, <1>3, <1>4, <1>5, <1>6 DEF IInv

\* The worker holds no buffer.
LEMMA SelectStep ==
  ASSUME IInv, Select
  PROVE  IInv'
<1>1. Places'
  BY DEF IInv, Places, Select, SrcAt, srcUnchanged
<1>2. OnInv'
  BY DEF IInv, OnInv, Select, SrcAt, srcUnchanged
<1>3. OwnerInv'
  BY DEF IInv, OwnerInv, Select, SrcAt, srcUnchanged
<1>4. CountInv'
  BY DEF IInv, CountInv, Select, SrcAt, srcUnchanged
<1>5. ReadInv'
  BY DEF IInv, ReadInv, Select, SrcAt, srcUnchanged
<1>6. FrameInv'
  BY DEF IInv, FrameInv, Pending, Written, Select, SrcAt, srcUnchanged
<1> QED BY <1>1, <1>2, <1>3, <1>4, <1>5, <1>6 DEF IInv

\* The worker ends with no buffer.
LEMMA SelectFailsStep ==
  ASSUME IInv, SelectFails
  PROVE  IInv'
<1>1. Places'
  BY DEF IInv, Places, SelectFails, SrcAt, srcUnchanged
<1>2. OnInv'
  BY DEF IInv, OnInv, SelectFails, SrcAt, srcUnchanged
<1>3. OwnerInv'
  BY DEF IInv, OwnerInv, SelectFails, SrcAt, srcUnchanged
<1>4. CountInv'
  BY DEF IInv, CountInv, SelectFails, SrcAt, srcUnchanged
<1>5. ReadInv'
  BY DEF IInv, ReadInv, SelectFails, SrcAt, srcUnchanged
<1>6. FrameInv'
  BY DEF IInv, FrameInv, Pending, Written, SelectFails, SrcAt, srcUnchanged
<1> QED BY <1>1, <1>2, <1>3, <1>4, <1>5, <1>6 DEF IInv

\* The buffer is the worker's; its frame, if it is whole, has yet to be copied.
LEMMA DequeueFrameStep ==
  ASSUME IInv, DequeueFrame
  PROVE  IInv'
<1>1. Places'
  BY DEF IInv, Places, DequeueFrame, Device!Dequeue
<1>2. OnInv'
  BY DEF IInv, OnInv, DequeueFrame, Device!Dequeue
<1>3. OwnerInv'
  BY DEF IInv, OwnerInv, OnInv, DequeueFrame, Device!Dequeue
<1>4. CountInv'
  <2>1. PICK b \in Buffers : /\ src = "dequeue" /\ good' = good \ {b}
                             /\ src' = IF b \in good THEN "handler" ELSE "enqueue"
                             /\ UNCHANGED <<filled, claimed>>
    BY DEF DequeueFrame, Device!Dequeue
  <2>2. CASE b \in good
    <3>1. IsFiniteSet(good \ {b}) /\ Cardinality(good \ {b}) = Cardinality(good) - 1
      BY <2>2, FS_RemoveElement DEF IInv, CountInv
    <3> QED BY <2>1, <2>2, <3>1, GoodCount DEF IInv, CountInv, ReadInv
  <2>3. CASE b \notin good
    <3>1. good' = good BY <2>1, <2>3
    <3> QED BY <2>1, <2>3, <3>1, GoodCount DEF IInv, CountInv, ReadInv
  <2> QED BY <2>2, <2>3
<1>5. ReadInv'
  BY DEF IInv, ReadInv, DequeueFrame, Device!Dequeue
<1>6. FrameInv'
  BY DEF IInv, FrameInv, Pending, Written, DequeueFrame, Device!Dequeue
<1> QED BY <1>1, <1>2, <1>3, <1>4, <1>5, <1>6 DEF IInv

\* The worker holds no buffer.
LEMMA DequeueFailsStep ==
  ASSUME IInv, DequeueFails
  PROVE  IInv'
<1>1. Places'
  BY DEF IInv, Places, DequeueFails, SrcAt, srcUnchanged
<1>2. OnInv'
  BY DEF IInv, OnInv, DequeueFails, SrcAt, srcUnchanged
<1>3. OwnerInv'
  BY DEF IInv, OwnerInv, DequeueFails, SrcAt, srcUnchanged
<1>4. CountInv'
  BY DEF IInv, CountInv, DequeueFails, SrcAt, srcUnchanged
<1>5. ReadInv'
  BY DEF IInv, ReadInv, DequeueFails, SrcAt, srcUnchanged
<1>6. FrameInv'
  BY DEF IInv, FrameInv, Pending, Written, DequeueFails, SrcAt, srcUnchanged
<1> QED BY <1>1, <1>2, <1>3, <1>4, <1>5, <1>6 DEF IInv

\* A frame that is refused is never copied.
LEMMA HandlerStep ==
  ASSUME IInv, Handler
  PROVE  IInv'
<1>1. Places'
  BY DEF IInv, Places, Handler, SrcAt, srcUnchanged
<1>2. OnInv'
  BY DEF IInv, OnInv, Handler, SrcAt, srcUnchanged
<1>3. OwnerInv'
  BY DEF IInv, OwnerInv, Handler, SrcAt, srcUnchanged
<1>4. CountInv'
  BY GoodCount DEF IInv, CountInv, ReadInv, Handler, SrcAt, srcUnchanged
<1>5. ReadInv'
  BY DEF IInv, ReadInv, Handler, SrcAt, srcUnchanged
<1>6. FrameInv'
  BY DEF IInv, FrameInv, Pending, Written, Handler, SrcAt, srcUnchanged
<1> QED BY <1>1, <1>2, <1>3, <1>4, <1>5, <1>6 DEF IInv

\* The slot is one that has been given back.
LEMMA ClaimStep ==
  ASSUME IInv, Claim
  PROVE  IInv'
<1>1. Places'
  BY DEF IInv, Places, Claim, SrcAt, Full, Sequences
<1>2. OnInv'
  BY DEF IInv, OnInv, Claim, SrcAt, Full, Sequences
<1>3. OwnerInv'
  BY DEF IInv, OwnerInv, Claim, SrcAt, Full, Sequences
<1>4. CountInv'
  BY GoodCount DEF IInv, CountInv, ReadInv, Claim, SrcAt
<1>5. ReadInv'
  BY DEF IInv, ReadInv, Claim, SrcAt, Full, Sequences
<1>6. FrameInv'
  <2>1. /\ claimed + 1 \in Sequences /\ claimed \in Int
        /\ src = "claim" /\ src' = "copy" /\ claimed' = claimed + 1
        /\ slot' = [slot EXCEPT ![claimed + 1] = <<NoFrame, NoFrame>>]
        /\ UNCHANGED <<memory, filled, good, held>>
    BY GoodCount DEF IInv, CountInv, ReadInv, Claim, SrcAt, Sequences
  <2>2. Pending' = Pending /\ Written' = claimed /\ Written = claimed
    BY <2>1 DEF Pending, Written
  <2>3. \A s \in 0 .. claimed : s \in Sequences /\ slot'[s] = slot[s]
    BY <2>1 DEF Sequences, IInv, FrameInv
  <2>4. slot' \in [Sequences -> (0 .. MaxFrames) \X (0 .. MaxFrames)]
    BY <2>1 DEF IInv, FrameInv
  <2> QED BY <2>1, <2>2, <2>3, <2>4 DEF IInv, FrameInv
<1> QED BY <1>1, <1>2, <1>3, <1>4, <1>5, <1>6 DEF IInv

\* Both halves come from the memory that nobody writes.
LEMMA CopyStep ==
  ASSUME IInv, Copy
  PROVE  IInv'
<1>1. Places'
  BY DEF IInv, Places, Copy, SrcAt, Sequences
<1>2. OnInv'
  BY DEF IInv, OnInv, Copy, SrcAt, Sequences
<1>3. OwnerInv'
  BY DEF IInv, OwnerInv, Copy, SrcAt, Sequences
<1>4. CountInv'
  BY DEF IInv, CountInv, Copy, SrcAt, Sequences
<1>5. ReadInv'
  BY DEF IInv, ReadInv, Copy, SrcAt, Sequences
<1>6. FrameInv'
  <2>1. /\ claimed \in Sequences /\ held \in Buffers /\ held \notin good
        /\ UNCHANGED <<memory, filled, good, held, claimed>>
    BY GoodCount DEF IInv, CountInv, ReadInv, OwnerInv, Copy, SrcAt, Sequences
  <2>2. /\ slot \in [Sequences -> (0 .. MaxFrames) \X (0 .. MaxFrames)]
        /\ memory[held] \in 0 .. MaxFrames
        /\ slot[claimed] = <<slot[claimed][1], slot[claimed][2]>>
        /\ slot[claimed][1] \in 0 .. MaxFrames /\ slot[claimed][2] \in 0 .. MaxFrames
    BY <2>1 DEF IInv, FrameInv
  <2>3. \A s \in 0 .. claimed - 1 : s \in Sequences /\ s # claimed
    BY <2>1 DEF Sequences
  <2>4. CASE src = "copy"
    <3>1. src' = "copy_rest" /\ slot' = [slot EXCEPT ![claimed][1] = memory[held]]
      BY <2>4 DEF Copy, SrcAt
    <3>3. /\ slot' \in [Sequences -> (0 .. MaxFrames) \X (0 .. MaxFrames)]
          /\ slot'[claimed][1] = memory[held]
          /\ \A s \in 0 .. claimed - 1 : slot'[s] = slot[s]
      <4>1. /\ slot' \in [Sequences -> (0 .. MaxFrames) \X (0 .. MaxFrames)]
            /\ slot'[claimed][1] = memory[held]
            /\ \A s \in Sequences \ {claimed} : slot'[s] = slot[s]
        BY <2>1, <2>2, <3>1, FirstHalf
      <4> QED BY <4>1, <2>3
    <3>4. Pending' = Pending /\ Written' = claimed - 1 /\ Written = claimed - 1
      BY <2>1, <2>4, <3>1 DEF Pending, Written
    <3> QED BY <2>1, <2>4, <3>1, <3>3, <3>4 DEF IInv, FrameInv
  <2>5. CASE src = "copy_rest"
    <3>1. src' = "publish" /\ slot' = [slot EXCEPT ![claimed][2] = memory[held]]
      BY <2>5 DEF Copy, SrcAt
    <3>3. /\ slot' \in [Sequences -> (0 .. MaxFrames) \X (0 .. MaxFrames)]
          /\ slot'[claimed][1] = memory[held] /\ slot'[claimed][2] = memory[held]
          /\ \A s \in 0 .. claimed - 1 : slot'[s] = slot[s]
      <4>1. /\ slot' \in [Sequences -> (0 .. MaxFrames) \X (0 .. MaxFrames)]
            /\ slot'[claimed][1] = slot[claimed][1] /\ slot'[claimed][2] = memory[held]
            /\ \A s \in Sequences \ {claimed} : slot'[s] = slot[s]
        BY <2>1, <2>2, <3>1, SecondHalf
      <4>2. slot[claimed][1] = memory[held] BY <2>5 DEF IInv, FrameInv
      <4> QED BY <4>1, <4>2, <2>3
    <3> DEFINE Left == {b \in good : memory[b] # NoFrame}
    <3>4. /\ Pending' = Left /\ Pending = Left \cup {held} /\ held \notin Left
          /\ Written' = claimed /\ Written = claimed - 1
      BY <2>1, <2>5, <3>1 DEF Pending, Written, IInv, FrameInv
    <3> HIDE DEF Left
    <3>5. /\ memory[held] \in 1 .. filled
          /\ \A b \in Left : memory[b] \in 1 .. filled /\ memory[b] # memory[held]
          /\ \A s \in 0 .. claimed - 1 : memory[held] # slot[s][1]
      BY <2>1, <3>4 DEF IInv, FrameInv
    <3>6. \A s \in 0 .. claimed :
              /\ slot'[s][1] = slot'[s][2] /\ slot'[s][1] \in 1 .. filled
              /\ \A b \in Left : memory[b] # slot'[s][1]
      <4>1. TAKE s \in 0 .. claimed
      <4>2. CASE s = claimed BY <4>2, <3>3, <3>5
      <4>3. CASE s \in 0 .. claimed - 1
        BY <4>3, <3>3, <3>4 DEF IInv, FrameInv
      <4> QED BY <4>2, <4>3, <2>1 DEF Sequences
    <3>7. \A r \in 0 .. claimed, s \in 0 .. claimed : slot'[r][1] = slot'[s][1] => r = s
      <4>1. TAKE r \in 0 .. claimed, s \in 0 .. claimed
      <4>2. CASE r = claimed /\ s = claimed BY <4>2
      <4>3. CASE r = claimed /\ s \in 0 .. claimed - 1 BY <4>3, <3>3, <3>5
      <4>4. CASE s = claimed /\ r \in 0 .. claimed - 1 BY <4>4, <3>3, <3>5
      <4>5. CASE r \in 0 .. claimed - 1 /\ s \in 0 .. claimed - 1
        BY <4>5, <3>3, <3>4 DEF IInv, FrameInv
      <4> QED BY <4>2, <4>3, <4>4, <4>5, <2>1 DEF Sequences
    <3>8. \A b \in Left, c \in Left : memory[b] = memory[c] => b = c
      BY <3>4 DEF IInv, FrameInv
    <3>9. memory \in [Buffers -> 0 .. MaxFrames]
      BY DEF IInv, FrameInv
    <3> QED BY <2>1, <3>1, <3>3, <3>4, <3>5, <3>6, <3>7, <3>8, <3>9 DEF FrameInv
  <2> QED BY <2>4, <2>5 DEF Copy, SrcAt
<1> QED BY <1>1, <1>2, <1>3, <1>4, <1>5, <1>6 DEF IInv

\* The slot that is published is written.
LEMMA PublishStep ==
  ASSUME IInv, Publish
  PROVE  IInv'
<1>1. Places'
  BY DEF IInv, Places, Publish, SrcAt
<1>2. OnInv'
  BY DEF IInv, OnInv, Publish, SrcAt
<1>3. OwnerInv'
  BY DEF IInv, OwnerInv, Publish, SrcAt
<1>4. CountInv'
  BY DEF IInv, CountInv, Publish, SrcAt
<1>5. ReadInv'
  BY DEF IInv, ReadInv, Publish, SrcAt
<1>6. FrameInv'
  BY DEF IInv, FrameInv, Pending, Written, Publish, SrcAt
<1> QED BY <1>1, <1>2, <1>3, <1>4, <1>5, <1>6 DEF IInv

\* The frame has been copied.
LEMMA EnqueueBufferStep ==
  ASSUME IInv, EnqueueBuffer
  PROVE  IInv'
<1>1. Places'
  BY DEF IInv, Places, EnqueueBuffer, SrcAt, Requeue, Device!Queue,
        Device!vars
<1>2. OnInv'
  BY DEF IInv, OnInv, EnqueueBuffer, SrcAt, Requeue, Device!Queue,
        Device!vars
<1>3. OwnerInv'
  BY DEF IInv, OwnerInv, OnInv, EnqueueBuffer, SrcAt, Requeue, Device!Queue,
        Device!vars
<1>4. CountInv'
  BY DEF IInv, CountInv, EnqueueBuffer, SrcAt, Requeue, Device!Queue,
        Device!vars
<1>5. ReadInv'
  BY DEF IInv, ReadInv, EnqueueBuffer, SrcAt, Requeue, Device!Queue,
        Device!vars
<1>6. FrameInv'
  BY DEF IInv, FrameInv, Pending, Written, EnqueueBuffer, SrcAt, Requeue,
        Device!Queue, Device!vars
<1> QED BY <1>1, <1>2, <1>3, <1>4, <1>5, <1>6 DEF IInv

\* Nothing has been read.
LEMMA BindStep ==
  ASSUME IInv, Bind
  PROVE  IInv'
<1>1. Places'
  BY DEF IInv, Places, Bind
<1>2. ReadInv'
  BY DEF IInv, ReadInv, Bind
<1>3. OnInv' /\ OwnerInv' /\ CountInv' /\ FrameInv'
  BY DEF IInv, OnInv, OwnerInv, CountInv, FrameInv, Pending, Written, Bind
<1> QED BY <1>1, <1>2, <1>3 DEF IInv

\* Nothing is read.
LEMMA TickStep ==
  ASSUME IInv, Tick
  PROVE  IInv'
<1>1. Places'
  BY DEF IInv, Places, Tick
<1>2. ReadInv'
  BY DEF IInv, ReadInv, Tick
<1>3. OnInv' /\ OwnerInv' /\ CountInv' /\ FrameInv'
  BY DEF IInv, OnInv, OwnerInv, CountInv, FrameInv, Pending, Written, Tick
<1> QED BY <1>1, <1>2, <1>3 DEF IInv

\* A batch is what has been published.
LEMMA PollStep ==
  ASSUME IInv, Poll
  PROVE  IInv'
<1>1. Places'
  BY DEF IInv, Places, Poll
<1>2. ReadInv'
  BY DEF IInv, ReadInv, Poll
<1>3. OnInv' /\ OwnerInv' /\ CountInv' /\ FrameInv'
  BY DEF IInv, OnInv, OwnerInv, CountInv, FrameInv, Pending, Written, Poll
<1> QED BY <1>1, <1>2, <1>3 DEF IInv

\* The batch is given back as a whole.
LEMMA ReadBatchStep ==
  ASSUME IInv, ReadBatch
  PROVE  IInv'
<1>1. Places'
  BY DEF IInv, Places, ReadBatch
<1>2. ReadInv'
  BY DEF IInv, ReadInv, ReadBatch
<1>3. OnInv' /\ OwnerInv' /\ CountInv' /\ FrameInv'
  BY DEF IInv, OnInv, OwnerInv, CountInv, FrameInv, Pending, Written,
        ReadBatch
<1> QED BY <1>1, <1>2, <1>3 DEF IInv

\* A frame that is new is in a buffer that the device has.
LEMMA FillStep ==
  ASSUME IInv, NEW b \in Buffers, Fill(b)
  PROVE  IInv'
<1>1. OnInv'
  BY DEF IInv, OnInv, Fill, Device!GiveBack
<1>2. OwnerInv'
  BY DEF IInv, OwnerInv, Fill, Device!GiveBack
<1>3. CountInv'
  <2>1. /\ owner[b] = "device" /\ filled' = filled + 1 /\ filled < MaxFrames
        /\ UNCHANGED <<claimed, src, held, slot>>
        /\ good' \in {good, good \cup {b}}
        /\ \/ good' = good \cup {b} /\ memory' = [memory EXCEPT ![b] = filled + 1]
           \/ memory' = [memory EXCEPT ![b] = NoFrame]
    BY DEF Fill, Device!GiveBack
  <2>2. b \notin good /\ (src \in Holding => b # held)
    BY <2>1 DEF IInv, OwnerInv
  <2>3. IsFiniteSet(good \cup {b}) /\ Cardinality(good \cup {b}) = Cardinality(good) + 1
    BY <2>2, FS_AddElement DEF IInv, CountInv
  <2>4. CASE good' = good
    BY <2>1, <2>4, GoodCount DEF IInv, CountInv, ReadInv
  <2>5. CASE good' = good \cup {b}
    BY <2>1, <2>3, <2>5, GoodCount DEF IInv, CountInv, ReadInv
  <2> QED BY <2>1, <2>4, <2>5
<1>4. FrameInv'
  <2>1. /\ owner[b] = "device" /\ filled' = filled + 1 /\ filled < MaxFrames
        /\ UNCHANGED <<claimed, src, held, slot>>
        /\ good' \in {good, good \cup {b}}
        /\ \/ good' = good \cup {b} /\ memory' = [memory EXCEPT ![b] = filled + 1]
           \/ memory' = [memory EXCEPT ![b] = NoFrame]
    BY DEF Fill, Device!GiveBack
  <2>2. b \notin good /\ (src \in Holding => b # held)
    BY <2>1 DEF IInv, OwnerInv
  <2>3. b \notin Pending /\ Pending \subseteq Buffers
    BY <2>2 DEF Pending, IInv, OwnerInv
  <2>4. /\ memory' \in [Buffers -> 0 .. MaxFrames]
        /\ \A c \in Buffers \ {b} : memory'[c] = memory[c]
    BY <2>1 DEF IInv, FrameInv, CountInv
  <2>5. Written' = Written
    BY <2>1 DEF Written
  <2>6. src \in Copying => memory'[held] = memory[held]
    BY <2>2, <2>4 DEF IInv, OwnerInv
  <2>7. CASE memory' = [memory EXCEPT ![b] = NoFrame]
    <3>1. Pending' = Pending
      BY <2>1, <2>2, <2>4, <2>7 DEF Pending, IInv, OwnerInv, FrameInv
    <3> QED BY <2>1, <2>3, <2>4, <2>5, <2>6, <3>1 DEF IInv, FrameInv, CountInv
  <2>8. CASE good' = good \cup {b} /\ memory' = [memory EXCEPT ![b] = filled + 1]
    <3>1. Pending' = Pending \cup {b} /\ memory'[b] = filled + 1 /\ filled \in Nat
      BY <2>1, <2>2, <2>4, <2>8 DEF Pending, IInv, OwnerInv, FrameInv, CountInv
    <3>2. \A c \in Pending : memory'[c] \in 1 .. filled /\ memory'[c] = memory[c]
      BY <2>3, <2>4 DEF IInv, FrameInv
    <3>3. \A s \in 0 .. Written : slot[s][1] \in 1 .. filled
      BY DEF IInv, FrameInv
    <3> QED BY <2>1, <2>4, <2>5, <2>6, <3>1, <3>2, <3>3 DEF IInv, FrameInv
  <2> QED BY <2>1, <2>7, <2>8
<1>5. Places' /\ ReadInv'
  BY DEF IInv, Places, ReadInv, Fill, Device!GiveBack
<1> QED BY <1>1, <1>2, <1>3, <1>4, <1>5 DEF IInv

\* Nothing is promised of a device that has gone.
LEMMA UnplugStep ==
  ASSUME IInv, Unplug
  PROVE  IInv'
<1>1. Places'
  BY ZenonT(60) DEF IInv, Places, Unplug
<1>2. OwnerInv'
  BY DEF IInv, OwnerInv, Unplug
<1>3. OnInv' /\ CountInv' /\ ReadInv' /\ FrameInv'
  BY DEF IInv, OnInv, CountInv, ReadInv, FrameInv, Pending, Written, Unplug
<1> QED BY <1>1, <1>2, <1>3 DEF IInv

\* Nothing else changes.
LEMMA SignalStep ==
  ASSUME IInv, Signal
  PROVE  IInv'
<1>1. Places'
  BY DEF IInv, Places, Signal
<1>2. OnInv' /\ OwnerInv' /\ CountInv' /\ ReadInv' /\ FrameInv'
  BY DEF IInv, OnInv, OwnerInv, CountInv, ReadInv, FrameInv, Pending,
        Written, Signal
<1> QED BY <1>1, <1>2 DEF IInv

-----------------------------------------------------------------------------
(* The invariant holds, and what it says.                                  *)

\* Before main() nothing is mapped, claimed or copied.
LEMMA InitIInv == Init => IInv
<1> SUFFICES ASSUME Init PROVE IInv OBVIOUS
<1>1. Places /\ OnInv BY DEF Init, Places, OnInv, Device!Init
<1>2. OwnerInv BY DEF Init, OwnerInv, Device!Init
<1>3. CountInv
  <2>1. IsFiniteSet({}) /\ Cardinality({}) = 0 BY FS_EmptySet
  <2> QED BY <2>1 DEF Init, CountInv, Device!Init
<1>4. ReadInv BY DEF Init, ReadInv
<1>5. FrameInv
  <2>1. Pending = {} /\ Written = -1 BY DEF Init, Pending, Written, Device!Init
  <2> QED BY <2>1 DEF Init, FrameInv
<1> QED BY <1>1, <1>2, <1>3, <1>4, <1>5 DEF IInv

\* Every step keeps the invariant.
LEMMA StepIInv == IInv /\ [Next]_vars => IInv'
<1> SUFFICES ASSUME IInv, [Next]_vars PROVE IInv' OBVIOUS
<1>1. CASE Main
  BY <1>1, ParseOptionsStep, OpenDeviceStep, MapBufferStep, StreamonStep,
        StreamonReturnsStep, StartSourceStep, ServerStartedStep,
        StopSourceStep, StreamoffStep, StreamoffReturnsStep, UnmapStep DEF Main
<1>2. CASE UNCHANGED vars
  <2>1. Places' /\ OnInv' /\ OwnerInv'
    BY <1>2 DEF IInv, Places, OnInv, OwnerInv, vars
  <2>2. CountInv' /\ ReadInv' BY <1>2 DEF IInv, CountInv, ReadInv, vars
  <2>3. FrameInv' BY <1>2 DEF IInv, FrameInv, Pending, Written, vars
  <2> QED BY <2>1, <2>2, <2>3 DEF IInv
<1>3. CASE Source
  BY <1>3, <1>2, LoopStep, SelectStep, DequeueFrameStep, DequeueFailsStep,
        HandlerStep, ClaimStep, CopyStep, PublishStep, EnqueueBufferStep
     DEF Source, Spin
<1>4. CASE Network
  BY <1>4, BindStep, TickStep, PollStep, ReadBatchStep DEF Network
<1>5. CASE SelectFails \/ Unplug \/ Signal
  BY <1>5, SelectFailsStep, UnplugStep, SignalStep
<1>6. CASE \E b \in Buffers : Fill(b)
  BY <1>6, FillStep
<1> QED BY <1>1, <1>2, <1>3, <1>4, <1>5, <1>6 DEF Next, Over

\* The invariant holds throughout.
LEMMA Inductive == Spec => []IInv
<1>1. IInv /\ [Next]_vars => IInv' BY StepIInv
<1> QED BY InitIInv, <1>1, PTL DEF Spec

\* Every variable has its type, and the worker is never more than Capacity frames ahead of
\* the timer.
THEOREM V4l2TypeCorrect == Spec => []TypeOK
<1>1. IInv => TypeOK
  <2> SUFFICES ASSUME IInv PROVE TypeOK OBVIOUS
  <2>1. /\ claimed \in -1 .. MaxFrames - 1
        /\ {published, available, consumed} \subseteq -1 .. claimed
        /\ nextRead \in 0 .. claimed + 1 /\ claimed - consumed <= Capacity
    BY GoodCount DEF IInv, CountInv, ReadInv
  <2>2. held \in Buffers \cup {NoBuffer} BY DEF IInv, OwnerInv
  <2>3. /\ {running, plugged} \subseteq BOOLEAN
        /\ phase \in {"off", "starting", "on", "stopping"}
        /\ owner \in [Buffers -> Device!Owners]
        /\ good \subseteq {b \in Buffers : owner[b] = "done"}
        /\ mapped \subseteq Buffers
    BY DEF IInv, Places, OwnerInv, Device!Owners
  <2>4. /\ memory \in [Buffers -> 0 .. MaxFrames] /\ filled \in 0 .. MaxFrames
        /\ slot \in [Sequences -> (0 .. MaxFrames) \X (0 .. MaxFrames)]
    BY DEF IInv, FrameInv, CountInv
  <2> QED BY <2>1, <2>2, <2>3, <2>4 DEF IInv, Places, TypeOK
<1> QED BY <1>1, Inductive, PTL

\* For any number of buffers, the worker keeps none but the one it handles, and that one
\* is mapped and of a stream that is on.
THEOREM NoBufferKept == Spec => []BuffersConserved
<1>1. IInv => BuffersConserved
  <2> SUFFICES ASSUME IInv PROVE BuffersConserved OBVIOUS
  <2>1. ASSUME plugged, main \in {"start", "bind", "operational", "join_network"}
        PROVE  {b \in Buffers : owner[b] = "user"} = {held} \ {NoBuffer}
    <3>1. \A b \in Buffers : owner[b] = "user" => b = held
      BY <2>1 DEF IInv, OwnerInv
    <3>2. held # NoBuffer => held \in Buffers /\ owner[held] = "user"
      BY DEF IInv, OwnerInv
    <3> QED BY <3>1, <3>2
  <2>2. ASSUME src \in {"copy", "copy_rest"} PROVE held \in mapped /\ phase = "on"
    BY <2>2 DEF IInv, OwnerInv, OnInv, Places
  <2> QED BY <2>1, <2>2 DEF BuffersConserved
<1> QED BY <1>1, Inductive, PTL

\* For any number of buffers, slots and frames, what the server is shown is one whole
\* frame, and every frame is shown once.
THEOREM OneWholeFrame == Spec => []PublishedWhole
<1>1. IInv => PublishedWhole
  <2> SUFFICES ASSUME IInv, NEW s \in 0 .. published
      PROVE /\ slot[s][1] = slot[s][2] /\ slot[s][1] # NoFrame
            /\ \A r \in 0 .. published : slot[r] = slot[s] => r = s
    BY DEF PublishedWhole
  <2>1. \A r \in 0 .. published : r \in 0 .. Written
    BY DEF IInv, ReadInv, Written, Places
  <2> QED BY <2>1 DEF IInv, FrameInv
<1> QED BY <1>1, Inductive, PTL

\* The calls that nobody checks are never refused while the camera is there: a buffer is
\* mapped or handled, and not with the device, when it is queued (a refused QBUF would take
\* it out of circulation unseen), the stream is on when a buffer is dequeued, and it is off
\* when it is started and not on its way when it is stopped.
CallsTaken ==
    plugged =>
      /\ main = "map" => phase = "off" /\ \A b \in Buffers \ mapped : owner[b] = "user"
      /\ src = "enqueue" => phase = "on" /\ held \in mapped /\ owner[held] = "user"
      /\ src = "dequeue" => phase = "on"
      /\ main = "join_network" => phase = "on"

\* Every QBUF, DQBUF, STREAMON and STREAMOFF finds the device as that call needs it, for any
\* number of buffers and whatever fails.
THEOREM EveryCallTaken == Spec => []CallsTaken
<1>1. IInv => CallsTaken
  BY DEF IInv, Places, OnInv, OwnerInv, CallsTaken
<1> QED BY <1>1, Inductive, PTL

\* The device does only what CaptureQueue has.
LEMMA DeviceStep == IInv /\ [Next]_vars => [Device!Next]_Device!vars
<1> SUFFICES ASSUME IInv, [Next]_vars PROVE Device!Next \/ UNCHANGED queueVars
  BY DEF Device!vars
<1> USE DEF vars
<1>1. CASE Main
  <2>1. CASE ParseOptions \/ OpenDevice \/ StartSource \/ ServerStarted \/ StopSource \/ Unmap
    BY <2>1 DEF ParseOptions, OpenDevice, StartSource, ServerStarted, StopSource, Unmap
  <2>2. CASE \E b \in Buffers : MapBuffer(b)
    BY <2>2 DEF MapBuffer, Requeue, Device!Next
  <2>3. CASE Streamon \/ StreamonReturns
    BY <2>3 DEF Streamon, StreamonReturns, Device!Next, Device!Returns
  <2>4. CASE Streamoff \/ StreamoffReturns
    BY <2>4 DEF Streamoff, StreamoffReturns, Device!Next, Device!Returns
  <2> QED BY <1>1, <2>1, <2>2, <2>3, <2>4 DEF Main
<1>2. CASE Source
  <2>1. CASE Loop \/ Select \/ DequeueFails \/ Handler \/ Claim \/ Spin \/ Copy \/ Publish
    BY <2>1 DEF Loop, Select, DequeueFails, Handler, Claim, Spin, Copy, Publish, srcUnchanged
  <2>2. CASE DequeueFrame
    BY <2>2 DEF DequeueFrame, Device!Next
  <2>3. CASE EnqueueBuffer
    <3>1. held \in Buffers
      BY <2>3 DEF EnqueueBuffer, SrcAt, IInv, OwnerInv
    <3> QED BY <2>3, <3>1 DEF EnqueueBuffer, Requeue, Device!Next
  <2> QED BY <1>2, <2>1, <2>2, <2>3 DEF Source
<1>3. CASE Network \/ SelectFails \/ Unplug \/ Signal \/ Over \/ UNCHANGED vars
  BY <1>3 DEF Network, Bind, Tick, Poll, ReadBatch, SelectFails, srcUnchanged, Unplug,
              Signal, Over
<1>4. CASE \E b \in Buffers : Fill(b)
  <2>1. PICK b \in Buffers : \E whole \in SUBSET {b} : Device!GiveBack({b}, whole)
    BY <1>4 DEF Fill
  <2> QED BY <2>1 DEF Device!Next
<1> QED BY <1>1, <1>2, <1>3, <1>4 DEF Next

\* All that becomes of the device is as CaptureQueue has it, which DriverIsCaptureDevice of
\* UpStreamProofs shows of the driver: the two sides of /dev/videoN meet.
THEOREM DeviceUsedAsPromised == Spec => Device!Safety
<1>1. Init => Device!Init
  BY DEF Init
<1> QED BY <1>1, DeviceStep, Inductive, PTL DEF Spec, Device!Safety

\* Neither thread is given more of the ring than it has: the worker clears no slot that the
\* network thread has been offered and has not given back, so that a slot may stand here for
\* its sequence.
RingRespected ==
    /\ consumed = nextRead - 1
    /\ claimed - consumed <= Capacity
    /\ net = "read" => nextRead <= available /\ available <= published

\* The ring is used within the rules that DisruptorProofs shows of it.
THEOREM RingNeverOverrun == Spec => []RingRespected
<1>1. IInv => RingRespected
  BY DEF IInv, ReadInv, RingRespected
<1> QED BY <1>1, Inductive, PTL
===============================================================================
