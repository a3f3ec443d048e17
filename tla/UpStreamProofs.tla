--------------------------- MODULE UpStreamProofs ---------------------------
(***************************************************************************)
(* What is proved of the kernel driver's streaming for any buffers, URBs,  *)
(* script and sizes, whether or not submissions fail.                      *)
(***************************************************************************)
EXTENDS UpStream, SequenceTheorems, TLAPS

(***************************************************************************)
(* STREAM_HW_ACTIVE is set by the test_and_set_bit of up_start_streaming   *)
(* and cleared where error_start ends and where up_stop_streaming begins:  *)
(* between them a start is in progress or has succeeded.                   *)
(***************************************************************************)
GuardInv ==
    hw_active => \/ io \in {"setup", "ready", "submit", "error", "errorKill"}
                 \/ streaming /\ io \in {"idle", "stop"}

LEMMA GuardInit == Init => GuardInv
  BY DEF Init, GuardInv

\* What the ioctl thread does to the bit.
LEMMA GuardStep == GuardInv /\ [Next]_vars => GuardInv'
<1> SUFFICES ASSUME GuardInv, [Next]_vars PROVE GuardInv'
  OBVIOUS
<1>1. CASE Ioctl
  <2>1. ASSUME NEW b \in Buffers, Qbuf(b) \/ Dqbuf(b) PROVE GuardInv'
    BY <2>1 DEF GuardInv, Qbuf, Dqbuf, ioVars
  <2>2. CASE Streamon
    BY <2>2 DEF GuardInv, Streamon, vbVars
  <2>3. CASE Streamoff
    BY <2>3 DEF GuardInv, Streamoff, vbVars
  <2> QED  BY <1>1, <2>1, <2>2, <2>3 DEF Ioctl
<1>2. CASE StartStop
  <2>1. CASE StartFailed \/ StopReturned
    BY <2>1 DEF GuardInv, StartFailed, StopReturned, vbVars
  <2>2. CASE StartReset
    BY <2>2 DEF GuardInv, StartReset, ResetTo, Io, vbVars
  <2>3. CASE SetupHardware \/ StartReady
    BY <2>3 DEF GuardInv, SetupHardware, StartReady, Io, vbVars
  <2>4. CASE SubmitUrb \/ StartDone
    BY <2>4 DEF GuardInv, SubmitUrb, StartDone, Io, vbVars
  <2>5. CASE ErrorReady \/ ErrorDrain
    BY <2>5 DEF GuardInv, ErrorReady, ErrorDrain, ReturnReady, Io, vbVars
  <2>6. CASE KillUrb
    BY <2>6 DEF GuardInv, KillUrb, vbVars
  <2>7. CASE StopVideo \/ StopReady
    BY <2>7 DEF GuardInv, StopVideo, StopReady, Io, vbVars
  <2>8. CASE StopCancel \/ StopFlush
    BY <2>8 DEF GuardInv, StopCancel, StopFlush, StopReturnBuffers, Io, vbVars
  <2> QED  BY <1>2, <2>1, <2>2, <2>3, <2>4, <2>5, <2>6, <2>7, <2>8 DEF StartStop
<1>3. CASE Complete \/ Callback
  BY <1>3 DEF GuardInv, Complete, Callback, CbPush, CbQueueWork, CbRetest, CbSubmit,
              ioVars, vbVars
<1>4. CASE Worker
  BY <1>4 DEF GuardInv, Worker, WorkStart, WorkFetch, WorkSkip, WorkBoundary, WorkPass,
              WorkPayload, WorkReturn, FinishWork, ioVars, vbVars
<1>5. CASE UNCHANGED vars
  BY <1>5 DEF GuardInv, vars, ioVars, vbVars
<1> QED  BY <1>1, <1>2, <1>3, <1>4, <1>5 DEF Next

\* up_start_streaming never takes its early return for a stream that is already active,
\* however starts fail and stops come between, for any number of URBs, buffers and
\* sessions.
THEOREM GuardAlwaysClear == Spec => []StartNeverSkipped
<1>1. GuardInv => StartNeverSkipped
  BY DEF GuardInv, StartNeverSkipped
<1> QED  BY <1>1, GuardInit, GuardStep, PTL DEF Spec

(***************************************************************************)
(* Quiescence.                                                             *)
(***************************************************************************)
\* Nothing streams: a start has not submitted an URB, or a stop is over.
IsQuiet ==
    \/ io \in {"start", "setup", "ready", "error", "errorKill", "failed", "stopped"}
    \/ io = "submit" /\ urb_sub = 0
    \/ io = "idle" /\ ~streaming

UrbInv ==
    /\ urb_sub \in Nat
    /\ in_flight \subseteq Urbs
    /\ cb # Idle => cb.urb \in Urbs

\* up_stop_streaming stops one after the other: the submissions, the URBs, the work.
\* The URBs before `kill` are gone, and nobody submits them again.
StopInv ==
    /\ io = "stopKill" =>
          /\ kill \in Nat \ {0}
          /\ \A u \in in_flight : u >= kill
          /\ cb # Idle => cb.urb >= kill
    /\ io = "stopFlush" => in_flight = {} /\ cb = Idle /\ ~pending

\* Between streams nothing of the driver moves.
QuietInv ==
    /\ IsQuiet => /\ in_flight = {} /\ cb = Idle
                  /\ ~pending /\ work = "idle"
                  /\ fifo = <<>> /\ active_buf = None
    /\ IsQuiet /\ io \in {"idle", "failed", "stopped"} => ready_queue = <<>>

HaltInv == UrbInv /\ StopInv /\ QuietInv

LEMMA HaltInit == Init => HaltInv
  BY DEF Init, HaltInv, UrbInv, StopInv, QuietInv, IsQuiet

\* STREAMON is called between streams, with nothing in the ready queue.
LEMMA HaltIoctl == HaltInv /\ Ioctl => HaltInv'
<1> SUFFICES ASSUME HaltInv, Ioctl PROVE HaltInv'
  OBVIOUS
<1>1. ASSUME NEW b \in Buffers, Qbuf(b) \/ Dqbuf(b) PROVE HaltInv'
  <2>1. UNCHANGED <<io, urb_sub, kill, streaming, in_flight, cb, pending, work, fifo,
                  active_buf>>
    BY <1>1 DEF Qbuf, Dqbuf, ioVars, camVars, urbVars, workVars
  <2>2. IsQuiet /\ io = "idle" => UNCHANGED ready_queue
    BY <1>1 DEF Qbuf, Dqbuf, IsQuiet
  <2>3. io = "idle"
    BY <1>1 DEF Qbuf, Dqbuf
  <2> QED  BY <2>1, <2>2, <2>3 DEF HaltInv, UrbInv, StopInv, QuietInv, IsQuiet
<1>2. CASE Streamon
  BY <1>2 DEF Streamon, HaltInv, UrbInv, StopInv, QuietInv, IsQuiet,
              vbVars, camVars, urbVars, workVars
<1>3. CASE Streamoff
  BY <1>3 DEF Streamoff, HaltInv, UrbInv, StopInv, QuietInv, IsQuiet,
              vbVars, bufVars, camVars, urbVars, workVars
<1> QED  BY <1>1, <1>2, <1>3 DEF Ioctl

\* usb_submit_urb fails in up_start_streaming, with URBs submitted before.
SubmissionFails == io = "submit" /\ io' = "error" /\ urb_sub # 0

LEMMA NoFailure == FailingSubmits \subseteq {0} /\ [Next]_vars => ~SubmissionFails
<1> SUFFICES ASSUME FailingSubmits \subseteq {0}, [Next]_vars, SubmissionFails PROVE FALSE
  OBVIOUS
<1>1. CASE StartStop
  BY <1>1 DEF StartStop, StartFailed, StopReturned, StartReset, ResetTo, SetupHardware,
     StartReady, SubmitUrb, StartDone, ErrorReady, ErrorDrain, ReturnReady, KillUrb,
     StopVideo, StopReady, StopCancel, StopFlush, Io, SubmissionFails
<1>2. CASE Ioctl
  BY <1>2 DEF Ioctl, Qbuf, Dqbuf, Streamon, Streamoff, ioVars, SubmissionFails
<1>3. CASE Complete \/ Callback \/ Worker \/ UNCHANGED vars
  BY <1>3 DEF Complete, Callback, CbPush, CbQueueWork, CbRetest, CbSubmit, Worker, WorkStart,
     WorkFetch, WorkSkip, WorkBoundary, WorkPass, WorkPayload, WorkReturn, FinishWork, ioVars,
     vars, SubmissionFails
<1> QED  BY <1>1, <1>2, <1>3 DEF Next

LEMMA HaltStart ==
    ASSUME ~SubmissionFails, HaltInv,
           StartFailed \/ StopReturned \/ StartReset \/ SetupHardware \/ StartReady
             \/ SubmitUrb \/ StartDone \/ ErrorReady \/ ErrorDrain
    PROVE  HaltInv'
<1>1. CASE StartFailed \/ StopReturned
  BY <1>1 DEF StartFailed, StopReturned, HaltInv, UrbInv, StopInv, QuietInv, IsQuiet,
              vbVars, camVars, urbVars, workVars
<1>2. CASE StartReset
  BY <1>2 DEF StartReset, ResetTo, Io, HaltInv, UrbInv, StopInv, QuietInv, IsQuiet,
              vbVars, camVars, urbVars
<1>3. CASE SetupHardware \/ StartReady
  BY <1>3 DEF SetupHardware, StartReady, Io, HaltInv, UrbInv, StopInv, QuietInv, IsQuiet,
              vbVars, bufVars, camVars, urbVars, workVars
<1>4. CASE SubmitUrb /\ UNCHANGED io
  <2>1. io = "submit" /\ UNCHANGED <<io, cb>>
    BY <1>4 DEF SubmitUrb
  <2>2. NumUrbs \in Nat
    BY CountsAssumption
  <2>3. urb_sub' = urb_sub + 1 /\ in_flight' = in_flight \cup {urb_sub + 1}
    BY <1>4, <2>1 DEF SubmitUrb
  <2>4. urb_sub \in Nat /\ urb_sub < NumUrbs
    BY <1>4 DEF SubmitUrb, HaltInv, UrbInv
  <2>5. urb_sub + 1 \in Urbs /\ urb_sub' \in Nat
    BY <2>2, <2>3, <2>4 DEF Urbs
  <2>6. UrbInv'
    BY <2>1, <2>3, <2>5 DEF HaltInv, UrbInv
  <2>7. urb_sub' # 0
    BY <2>3, <2>4
  <2> QED  BY <2>1, <2>6, <2>7 DEF HaltInv, StopInv, QuietInv, IsQuiet
<1>4a. CASE SubmitUrb /\ io' # io
  <2>1. io = "submit" /\ io' = "error" /\ urb_sub = 0
    BY <1>4a DEF SubmitUrb, SubmissionFails
  <2> QED
    BY <1>4a, <2>1 DEF SubmitUrb, HaltInv, UrbInv, StopInv, QuietInv, IsQuiet,
              vbVars, bufVars, camVars, urbVars, workVars
<1>5. CASE StartDone
  BY <1>5 DEF StartDone, Io, HaltInv, UrbInv, StopInv, QuietInv, IsQuiet,
              bufVars, camVars, urbVars, workVars
<1>6. CASE ErrorReady \/ ErrorDrain
  BY <1>6 DEF ErrorReady, ErrorDrain, ReturnReady, Io, HaltInv, UrbInv, StopInv, QuietInv,
              IsQuiet, vbVars, bufVars, camVars, urbVars, workVars
<1> QED  BY <1>1, <1>2, <1>3, <1>4, <1>4a, <1>5, <1>6

\* usb_kill_urb leaves one URB less that can come back.
LEMMA HaltStop ==
    ASSUME HaltInv, KillUrb \/ StopVideo \/ StopReady \/ StopCancel \/ StopFlush
    PROVE  HaltInv'
<1>1. CASE KillUrb
  <2>1. /\ io \in {"stopKill", "errorKill"}
        /\ cb.urb # kill /\ in_flight' = in_flight \ {kill} /\ kill' = kill + 1
        /\ UNCHANGED <<io, urb_sub, cb>>
    BY <1>1 DEF KillUrb
  <2>2. UrbInv'
    BY <2>1 DEF HaltInv, UrbInv
  <2>3. Urbs \subseteq Int
    BY DEF Urbs
  <2>4. StopInv'
    <3>1. CASE io = "stopKill"
      <4>1. kill \in Nat \ {0} /\ kill' \in Nat \ {0}
        BY <2>1, <3>1 DEF HaltInv, StopInv
      <4>2. \A u \in in_flight' : u \in Int /\ u >= kill /\ u # kill
        BY <2>1, <2>3, <3>1 DEF HaltInv, UrbInv, StopInv
      <4>3. cb # Idle => cb.urb \in Int /\ cb.urb >= kill /\ cb.urb # kill
        BY <2>1, <2>3, <3>1 DEF HaltInv, UrbInv, StopInv
      <4> QED  BY <2>1, <3>1, <4>1, <4>2, <4>3 DEF StopInv
    <3>2. CASE io = "errorKill"
      BY <2>1, <3>2 DEF StopInv
    <3> QED  BY <2>1, <3>1, <3>2
  <2>5. QuietInv'
    BY <1>1, <2>1 DEF KillUrb, HaltInv, QuietInv, IsQuiet, vbVars, bufVars, workVars
  <2> QED  BY <2>2, <2>4, <2>5 DEF HaltInv
<1>2. CASE StopVideo \/ StopReady
  <2>1. io' = "stopReady" \/ (io' = "stopKill" /\ kill' = 1)
    BY <1>2 DEF StopVideo, StopReady, Io
  <2>2. UNCHANGED <<urb_sub, in_flight, cb>>
    BY <1>2 DEF StopVideo, StopReady, urbVars
  <2>3. UrbInv' /\ QuietInv'
    BY <2>1, <2>2 DEF HaltInv, UrbInv, QuietInv, IsQuiet
  <2>4. \A u \in Urbs : u >= 1
    BY DEF Urbs
  <2>5. StopInv'
    BY <2>1, <2>2, <2>4 DEF HaltInv, UrbInv, StopInv
  <2> QED  BY <2>3, <2>5 DEF HaltInv
<1>3. CASE StopCancel
  <2>1. in_flight = {} /\ cb = Idle
    BY <1>3, CountsAssumption DEF StopCancel, Io, HaltInv, UrbInv, StopInv, Urbs
  <2> QED
    BY <1>3, <2>1 DEF StopCancel, Io, HaltInv, UrbInv, StopInv, QuietInv, IsQuiet,
              vbVars, bufVars, camVars, urbVars, workVars
<1>4. CASE StopFlush
  BY <1>4 DEF StopFlush, StopReturnBuffers, Io, HaltInv, UrbInv, StopInv, QuietInv, IsQuiet,
              vbVars, camVars, urbVars
<1> QED  BY <1>1, <1>2, <1>3, <1>4

LEMMA HaltCompletion == HaltInv /\ (Complete \/ Callback) => HaltInv'
<1> SUFFICES ASSUME HaltInv, Complete \/ Callback PROVE HaltInv'
  OBVIOUS
<1>0. UNCHANGED <<io, urb_sub, kill, streaming, work, active_buf, ready_queue>>
  BY DEF Complete, Callback, CbPush, CbQueueWork, CbRetest, CbSubmit, ioVars, vbVars,
         bufVars, workVars
<1>1. CASE Complete
  <2>1. PICK u \in in_flight : in_flight' = in_flight \ {u} /\ (cb' = Idle \/ cb'.urb = u)
    BY <1>1 DEF Complete
  <2>2. UNCHANGED <<pending, fifo>>
    BY <1>1 DEF Complete
  <2> QED
    BY <1>0, <2>1, <2>2 DEF HaltInv, UrbInv, StopInv, QuietInv, IsQuiet
<1>2. CASE Callback
  <2>1. cb # Idle
    BY <1>2 DEF Callback, CbPush, CbQueueWork, CbRetest, CbSubmit, Idle
  <2>2. cb' = Idle \/ cb'.urb = cb.urb
    BY <1>2 DEF Callback, CbPush, CbQueueWork, CbRetest, CbSubmit, CbAt
  <2>3. in_flight' \in {in_flight, in_flight \cup {cb.urb}}
    BY <1>2 DEF Callback, CbPush, CbQueueWork, CbRetest, CbSubmit
  <2> QED
    BY <1>0, <2>1, <2>2, <2>3 DEF HaltInv, UrbInv, StopInv, QuietInv, IsQuiet
<1> QED  BY <1>1, <1>2

LEMMA HaltWorker == HaltInv /\ Worker => HaltInv'
<1> SUFFICES ASSUME HaltInv, Worker PROVE HaltInv'
  OBVIOUS
<1>1. UNCHANGED <<io, urb_sub, kill, streaming, in_flight, cb>>
  BY DEF Worker, WorkStart, WorkFetch, WorkSkip, WorkBoundary, WorkPass, WorkPayload,
         WorkReturn, FinishWork, ioVars, vbVars, urbVars
<1>2. work # "idle" \/ pending
  BY DEF Worker, WorkStart, WorkFetch, WorkSkip, WorkBoundary, WorkPass, WorkPayload,
         WorkReturn, FinishWork, PacketHere, InDecode
<1>3. pending' => pending
  BY DEF Worker, WorkStart, WorkFetch, WorkSkip, WorkBoundary, WorkPass, WorkPayload,
         WorkReturn, FinishWork
<1> QED
  BY <1>1, <1>2, <1>3 DEF HaltInv, UrbInv, StopInv, QuietInv, IsQuiet

LEMMA HaltStep == ~SubmissionFails /\ HaltInv /\ [Next]_vars => HaltInv'
<1> SUFFICES ASSUME ~SubmissionFails, HaltInv, [Next]_vars PROVE HaltInv'
  OBVIOUS
<1>1. CASE Ioctl
  BY <1>1, HaltIoctl
<1>2. CASE StartStop
  BY <1>2, HaltStart, HaltStop DEF StartStop
<1>3. CASE Complete \/ Callback
  BY <1>3, HaltCompletion
<1>4. CASE Worker
  BY <1>4, HaltWorker
<1>5. CASE UNCHANGED vars
  BY <1>5 DEF HaltInv, UrbInv, StopInv, QuietInv, IsQuiet, vars, ioVars, vbVars, bufVars,
              urbVars, workVars
<1> QED  BY <1>1, <1>2, <1>3, <1>4, <1>5 DEF Next

(***************************************************************************)
(* What stops whatever fails.                                              *)
(***************************************************************************)
\* No URB has been submitted, or all have been killed.
IsIdleBus ==
    \/ io \in {"start", "setup", "ready", "failed", "stopped"}
    \/ io = "idle" /\ ~streaming

\* up_start_streaming has submitted the URBs up to urb_sub, and error_start kills them up
\* to there.
StartInv ==
    /\ IsIdleBus => in_flight = {} /\ cb = Idle
    /\ io \in {"submit", "error"} =>
          /\ \A u \in in_flight : u <= urb_sub
          /\ cb # Idle => cb.urb <= urb_sub
    /\ io = "errorKill" =>
          /\ kill \in Nat \ {0}
          /\ \A u \in in_flight : kill <= u /\ u <= urb_sub
          /\ cb # Idle => kill <= cb.urb /\ cb.urb <= urb_sub

\* After error_start the worker may still run; after a stop it does not.
StoppedInv ==
    io = "stopped" /\ streaming =>
          /\ ~pending /\ work = "idle" /\ fifo = <<>>
          /\ ready_queue = <<>> /\ active_buf = None

DrainInv == UrbInv /\ StopInv /\ StartInv /\ StoppedInv

LEMMA DrainInit == Init => DrainInv
  BY DEF Init, DrainInv, UrbInv, StopInv, StartInv, StoppedInv, IsIdleBus

LEMMA DrainIoctl == DrainInv /\ Ioctl => DrainInv'
<1> SUFFICES ASSUME DrainInv, Ioctl PROVE DrainInv'
  OBVIOUS
<1>1. io = "idle" /\ UNCHANGED <<urb_sub, kill, streaming, in_flight, cb, pending>>
  BY DEF Ioctl, Qbuf, Dqbuf, Streamon, Streamoff, ioVars, vbVars, urbVars
<1>2. \/ io' = "idle"
      \/ io' = "start" /\ ~streaming
      \/ io' = "stop"
      \/ io' = "stopped" /\ ~streaming
  BY DEF Ioctl, Qbuf, Dqbuf, Streamon, Streamoff, ioVars
<1> QED
  BY <1>1, <1>2 DEF DrainInv, UrbInv, StopInv, StartInv, StoppedInv, IsIdleBus

LEMMA DrainStart ==
    ASSUME DrainInv,
           StartFailed \/ StopReturned \/ StartReset \/ SetupHardware \/ StartReady
             \/ SubmitUrb \/ StartDone \/ ErrorReady \/ ErrorDrain
    PROVE  DrainInv'
<1> USE DEF DrainInv, StoppedInv, StopInv
<1>0. NumUrbs \in Nat /\ \A u \in Urbs : u \in Nat /\ 1 <= u
  BY CountsAssumption DEF Urbs
<1>1. CASE StartFailed \/ StopReturned
  BY <1>1 DEF StartFailed, StopReturned, UrbInv, StartInv, IsIdleBus, vbVars, urbVars
<1>2. CASE StartReset \/ SetupHardware \/ StartReady
  <2>1. /\ io \in {"start", "setup", "ready"} /\ UNCHANGED <<in_flight, cb>>
        /\ io' \in {"setup", "ready", "error", "submit"}
        /\ urb_sub' \in Nat
    BY <1>0, <1>2 DEF StartReset, ResetTo, SetupHardware, StartReady, Io, UrbInv, urbVars
  <2>2. in_flight = {} /\ cb = Idle
    BY <2>1 DEF StartInv, IsIdleBus
  <2> QED  BY <2>1, <2>2 DEF UrbInv, StartInv, IsIdleBus
<1>4. CASE SubmitUrb
  <2>1. io = "submit" /\ io' \in {"submit", "error"} /\ UNCHANGED cb
    BY <1>4 DEF SubmitUrb
  <2>2. urb_sub \in Nat /\ urb_sub < NumUrbs
    BY <1>4 DEF SubmitUrb, UrbInv
  <2>3. \/ urb_sub' = urb_sub + 1 /\ in_flight' = in_flight \cup {urb_sub + 1}
        \/ UNCHANGED <<urb_sub, in_flight>>
    BY <1>4 DEF SubmitUrb
  <2>4. urb_sub + 1 \in Urbs
    BY <1>0, <2>2 DEF Urbs
  <2>5. UrbInv'
    BY <2>1, <2>2, <2>3, <2>4 DEF UrbInv
  <2>6. StartInv'
    BY <1>0, <2>1, <2>2, <2>3 DEF UrbInv, StartInv, IsIdleBus
  <2> QED  BY <2>1, <2>5, <2>6
<1>5. CASE StartDone
  BY <1>5 DEF StartDone, Io, UrbInv, StartInv, IsIdleBus, urbVars
<1>6. CASE ErrorReady
  <2>1. /\ io = "error" /\ io' = "errorKill" /\ kill' = 1
        /\ UNCHANGED <<urb_sub, in_flight, cb>>
    BY <1>6 DEF ErrorReady, Io, urbVars
  <2> QED  BY <1>0, <2>1 DEF UrbInv, StartInv, IsIdleBus
<1>7. CASE ErrorDrain
  <2>1. /\ io = "errorKill" /\ io' = "failed" /\ kill > urb_sub /\ urb_sub' = 0
        /\ UNCHANGED <<in_flight, cb>>
    BY <1>7 DEF ErrorDrain, ReturnReady, Io, urbVars
  <2>2. in_flight = {} /\ cb = Idle
    BY <1>0, <2>1 DEF UrbInv, StartInv
  <2> QED  BY <2>1, <2>2 DEF UrbInv, StartInv, IsIdleBus
<1> QED  BY <1>1, <1>2, <1>4, <1>5, <1>6, <1>7

\* usb_kill_urb leaves one URB less that can come back, in error_start as in a stop.
LEMMA DrainStop ==
    ASSUME DrainInv, KillUrb \/ StopVideo \/ StopReady \/ StopCancel \/ StopFlush
    PROVE  DrainInv'
<1>0. NumUrbs \in Nat /\ \A u \in Urbs : u \in Nat /\ 1 <= u /\ u <= NumUrbs
  BY CountsAssumption DEF Urbs
<1>1. CASE KillUrb
  <2>1. /\ io \in {"stopKill", "errorKill"}
        /\ cb.urb # kill /\ in_flight' = in_flight \ {kill} /\ kill' = kill + 1
        /\ UNCHANGED <<io, urb_sub, cb>>
    BY <1>1 DEF KillUrb
  <2>2. UrbInv'
    BY <2>1 DEF DrainInv, UrbInv
  <2>3. kill \in Nat \ {0} /\ kill' \in Nat \ {0}
    BY <2>1 DEF DrainInv, StopInv, StartInv
  <2>4. \A u \in in_flight' : u \in Nat /\ u \in in_flight /\ u # kill
    BY <1>0, <2>1 DEF DrainInv, UrbInv
  <2>5. cb # Idle => cb.urb \in Nat /\ cb.urb # kill
    BY <1>0, <2>1 DEF DrainInv, UrbInv
  <2>6. StopInv' /\ StartInv'
    BY <2>1, <2>3, <2>4, <2>5 DEF DrainInv, StopInv, StartInv, IsIdleBus
  <2> QED  BY <2>1, <2>2, <2>6 DEF DrainInv, StoppedInv
<1>2. CASE StopVideo \/ StopReady
  <2>1. io' = "stopReady" \/ (io' = "stopKill" /\ kill' = 1)
    BY <1>2 DEF StopVideo, StopReady, Io
  <2>2. UNCHANGED <<urb_sub, in_flight, cb>>
    BY <1>2 DEF StopVideo, StopReady, urbVars
  <2> QED
    BY <1>0, <2>1, <2>2 DEF DrainInv, UrbInv, StopInv, StartInv, StoppedInv, IsIdleBus
<1>3. CASE StopCancel
  <2>1. io = "stopKill" /\ io' = "stopFlush" /\ ~pending' /\ UNCHANGED <<urb_sub, in_flight, cb>>
    BY <1>3 DEF StopCancel, Io, urbVars
  <2>2. in_flight = {} /\ cb = Idle
    BY <1>0, <1>3, <2>1 DEF StopCancel, DrainInv, UrbInv, StopInv
  <2> QED
    BY <2>1, <2>2 DEF DrainInv, UrbInv, StopInv, StartInv, StoppedInv, IsIdleBus
<1>4. CASE StopFlush
  <2>1. /\ io = "stopFlush" /\ io' = "stopped" /\ work' = "idle"
        /\ fifo' = <<>> /\ ready_queue' = <<>> /\ active_buf' = None
        /\ UNCHANGED <<urb_sub, in_flight, cb, pending>>
    BY <1>4 DEF StopFlush, StopReturnBuffers, Io, urbVars
  <2> QED
    BY <2>1 DEF DrainInv, UrbInv, StopInv, StartInv, StoppedInv, IsIdleBus
<1> QED  BY <1>1, <1>2, <1>3, <1>4

\* A handler keeps its URB, and there is none once the URBs are gone.
LEMMA DrainCompletion == DrainInv /\ (Complete \/ Callback) => DrainInv'
<1> SUFFICES ASSUME DrainInv, Complete \/ Callback PROVE DrainInv'
  OBVIOUS
<1>0. UNCHANGED <<io, urb_sub, kill, streaming, work, active_buf, ready_queue>>
  BY DEF Complete, Callback, CbPush, CbQueueWork, CbRetest, CbSubmit, ioVars, vbVars,
         bufVars, workVars
<1>1. in_flight # {} \/ cb # Idle
  BY DEF Complete, Callback, CbPush, CbQueueWork, CbRetest, CbSubmit, Idle
<1>2. io # "stopFlush" /\ ~IsIdleBus
  BY <1>1 DEF DrainInv, StopInv, StartInv
<1>3. io # "stopped"
  BY <1>2 DEF IsIdleBus
<1>4. CASE Complete
  <2>1. PICK u \in in_flight : in_flight' = in_flight \ {u} /\ (cb' = Idle \/ cb'.urb = u)
    BY <1>4 DEF Complete
  <2> QED
    BY <1>0, <1>2, <1>3, <2>1 DEF DrainInv, UrbInv, StopInv, StartInv, StoppedInv, IsIdleBus
<1>5. CASE Callback
  <2>1. cb # Idle
    BY <1>5 DEF Callback, CbPush, CbQueueWork, CbRetest, CbSubmit, Idle
  <2>2. cb' = Idle \/ cb'.urb = cb.urb
    BY <1>5 DEF Callback, CbPush, CbQueueWork, CbRetest, CbSubmit, CbAt
  <2>3. in_flight' \in {in_flight, in_flight \cup {cb.urb}}
    BY <1>5 DEF Callback, CbPush, CbQueueWork, CbRetest, CbSubmit
  <2> QED
    BY <1>0, <1>2, <1>3, <2>1, <2>2, <2>3
       DEF DrainInv, UrbInv, StopInv, StartInv, StoppedInv, IsIdleBus
<1> QED  BY <1>4, <1>5

LEMMA DrainWorker == DrainInv /\ Worker => DrainInv'
<1> SUFFICES ASSUME DrainInv, Worker PROVE DrainInv'
  OBVIOUS
<1>1. UNCHANGED <<io, urb_sub, kill, streaming, in_flight, cb>>
  BY DEF Worker, WorkStart, WorkFetch, WorkSkip, WorkBoundary, WorkPass, WorkPayload,
         WorkReturn, FinishWork, ioVars, vbVars, urbVars
<1>2. work # "idle" \/ pending
  BY DEF Worker, WorkStart, WorkFetch, WorkSkip, WorkBoundary, WorkPass, WorkPayload,
         WorkReturn, FinishWork, PacketHere, InDecode
<1>3. pending' => pending
  BY DEF Worker, WorkStart, WorkFetch, WorkSkip, WorkBoundary, WorkPass, WorkPayload,
         WorkReturn, FinishWork
<1> QED
  BY <1>1, <1>2, <1>3 DEF DrainInv, UrbInv, StopInv, StartInv, StoppedInv, IsIdleBus

LEMMA DrainStep == DrainInv /\ [Next]_vars => DrainInv'
<1> SUFFICES ASSUME DrainInv, [Next]_vars PROVE DrainInv'
  OBVIOUS
<1>1. CASE Ioctl
  BY <1>1, DrainIoctl
<1>2. CASE StartStop
  BY <1>2, DrainStart, DrainStop DEF StartStop
<1>3. CASE Complete \/ Callback
  BY <1>3, DrainCompletion
<1>4. CASE Worker
  BY <1>4, DrainWorker
<1>5. CASE UNCHANGED vars
  BY <1>5 DEF DrainInv, UrbInv, StopInv, StartInv, StoppedInv, IsIdleBus, vars, ioVars,
              vbVars, bufVars, urbVars, workVars
<1> QED  BY <1>1, <1>2, <1>3, <1>4, <1>5 DEF Next

\* When up_start_streaming has failed, wherever, and when a stop has returned, no URB is in
\* flight and no completion handler runs, so that none comes between streams or into the
\* next one: error_start kills as many as were submitted, and kills them in an order that
\* their resubmission cannot undo.
BusIdleBetween ==
    io = "failed" \/ (io = "idle" /\ ~streaming) => in_flight = {} /\ cb = Idle

\* Whether or not submissions fail, no URB outlives its stream.
THEOREM UrbsEndWithStream == Spec => []BusIdleBetween
<1>1. DrainInv => BusIdleBetween
  BY DEF DrainInv, StartInv, IsIdleBus, BusIdleBetween
<1> QED  BY <1>1, DrainInit, DrainStep, PTL DEF Spec

\* Of a stream that was started, a stop leaves nothing that moves, whatever has failed
\* before: neither URB nor handler, nor work queued or running, nor data, nor a buffer in
\* the driver's lists.
StopEndsMotion ==
    io = "stopped" /\ streaming =>
        /\ in_flight = {} /\ cb = Idle
        /\ ~pending /\ work = "idle"
        /\ fifo = <<>>
        /\ ready_queue = <<>> /\ active_buf = None

\* Whether or not submissions have failed, the stop of a started stream is quiet.
THEOREM StopAlwaysQuiets == Spec => []StopEndsMotion
<1>1. DrainInv => StopEndsMotion
  BY DEF DrainInv, StartInv, StoppedInv, IsIdleBus, StopEndsMotion
<1> QED  BY <1>1, DrainInit, DrainStep, PTL DEF Spec

(***************************************************************************)
(* Ownership.                                                              *)
(***************************************************************************)
LEMMA EmptyRange == Range(<<>>) = {} /\ IsInjective(<<>>)
  BY DEF Range, IsInjective

LEMMA AppendRange ==
    ASSUME NEW S, NEW s \in Seq(S), NEW e \in S
    PROVE  /\ Append(s, e) \in Seq(S)
           /\ Range(Append(s, e)) = Range(s) \cup {e}
           /\ IsInjective(s) /\ e \notin Range(s) => IsInjective(Append(s, e))
<1> DEFINE n == Len(s)  t == Append(s, e)
<1>1. /\ n \in Nat /\ DOMAIN s = 1 .. n
      /\ t \in Seq(S) /\ DOMAIN t = 1 .. n + 1
      /\ t[n + 1] = e /\ \A i \in 1 .. n : t[i] = s[i]
  BY LenProperties
<1> HIDE DEF n, t
<1>2. \A i : i \in 1 .. n + 1 <=> i \in 1 .. n \/ i = n + 1
  BY <1>1
<1>3. Range(t) = Range(s) \cup {e}
  <2>1. \A x : x \in Range(t) <=> \E i \in 1 .. n + 1 : x = t[i]
    BY <1>1 DEF Range
  <2>2. \A x : x \in Range(s) <=> \E i \in 1 .. n : x = s[i]
    BY <1>1 DEF Range
  <2> QED  BY <1>1, <1>2, <2>1, <2>2
<1>4. ASSUME IsInjective(s), e \notin Range(s) PROVE IsInjective(t)
  <2>1. \A i \in 1 .. n : s[i] # e
    BY <1>1, <1>4 DEF Range
  <2>2. \A i, j \in 1 .. n : s[i] = s[j] => i = j
    BY <1>1, <1>4 DEF IsInjective
  <2>3. \A i, j \in 1 .. n + 1 : t[i] = t[j] => i = j
    BY <1>1, <1>2, <2>1, <2>2
  <2> QED  BY <1>1, <2>3 DEF IsInjective
<1> QED  BY <1>1, <1>3, <1>4 DEF t

LEMMA HeadRange ==
    ASSUME NEW S, NEW s \in Seq(S), s # <<>>
    PROVE  /\ Head(s) \in S /\ Tail(s) \in Seq(S)
           /\ Range(s) = {Head(s)} \cup Range(Tail(s))
           /\ IsInjective(s) => IsInjective(Tail(s)) /\ Head(s) \notin Range(Tail(s))
<1> DEFINE n == Len(s)  t == Tail(s)
<1>1. /\ n \in Nat \ {0} /\ DOMAIN s = 1 .. n /\ Head(s) = s[1]
      /\ Head(s) \in S /\ t \in Seq(S)
      /\ Len(t) = n - 1
      /\ \A i \in 1 .. n - 1 : t[i] = s[i + 1]
  BY HeadTailProperties, LenProperties, EmptySeq
<1>2. DOMAIN t = 1 .. n - 1
  BY <1>1, LenProperties
<1> HIDE DEF n, t
<1>3. \A i \in 1 .. n : i = 1 \/ (i - 1 \in 1 .. n - 1 /\ t[i - 1] = s[i])
  BY <1>1
<1>4. \A i \in 1 .. n - 1 : i + 1 \in 1 .. n
  BY <1>1
<1>5. Range(s) = {Head(s)} \cup Range(t)
  <2>1. ASSUME NEW i \in 1 .. n PROVE s[i] = Head(s) \/ s[i] \in Range(t)
    BY <1>1, <1>2, <1>3 DEF Range
  <2>2. Head(s) \in Range(s)
    BY <1>1 DEF Range
  <2>3. \A x \in Range(t) : x \in Range(s)
    BY <1>1, <1>2, <1>4, SMTT(60) DEF Range
  <2>4. \A x \in Range(s) : \E i \in 1 .. n : x = s[i]
    BY <1>1 DEF Range
  <2> QED  BY <2>1, <2>2, <2>3, <2>4
<1>6. ASSUME IsInjective(s) PROVE IsInjective(t) /\ Head(s) \notin Range(t)
  <2>1. \A i, j \in 1 .. n : s[i] = s[j] => i = j
    BY <1>1, <1>6 DEF IsInjective
  <2>2. \A i, j \in 1 .. n - 1 : t[i] = t[j] => i = j
    BY <1>1, <1>4, <2>1
  <2>3. 1 \in 1 .. n /\ \A i \in 1 .. n - 1 : i + 1 # 1
    BY <1>1
  <2>4. \A i \in 1 .. n - 1 : t[i] # Head(s)
    BY <1>1, <1>4, <2>1, <2>3
  <2> QED  BY <1>2, <2>2, <2>4 DEF IsInjective, Range
<1> QED  BY <1>1, <1>5, <1>6 DEF t

\* The driver's buffers, each in one place.
HeldInv ==
    /\ ready_queue \in Seq(Buffers)
    /\ active_buf \in Buffers \cup {None}
    /\ buf_state \in [Buffers -> {"user", "queued", "active", "done"}]
    /\ IsInjective(ready_queue)
    /\ active_buf \notin Range(ready_queue)
    /\ \A b \in Buffers :
          buf_state[b] = "active" <=> b \in Range(ready_queue) \/ b = active_buf

\* What vb2 will hand to the driver.
QueuedInv ==
    IsQuiet /\ io # "stopped" =>
        /\ queued_list \in Seq(Buffers)
        /\ IsInjective(queued_list)
        /\ \A b \in Buffers : /\ buf_state[b] # "user" <=> b \in Range(queued_list)
                              /\ buf_state[b] # "done"

OwnedInv == HaltInv /\ HeldInv /\ QueuedInv

LEMMA OwnedInit == Init => OwnedInv
<1> SUFFICES ASSUME Init PROVE OwnedInv
  OBVIOUS
<1>1. HaltInv
  BY HaltInit
<1>2. HeldInv /\ QueuedInv
  BY EmptyRange, BuffersAssumption DEF Init, HeldInv, QueuedInv
<1> QED  BY <1>1, <1>2 DEF OwnedInv

LEMMA HeldIoctl == OwnedInv /\ Ioctl => HeldInv' /\ QueuedInv'
<1> SUFFICES ASSUME OwnedInv, Ioctl PROVE HeldInv' /\ QueuedInv'
  OBVIOUS
<1>0. HaltInv /\ HeldInv /\ QueuedInv
  BY DEF OwnedInv
<1>1. ASSUME NEW b \in Buffers, Qbuf(b) PROVE HeldInv' /\ QueuedInv'
  <2>1. /\ io = "idle" /\ buf_state[b] = "user"
        /\ queued_list' = Append(queued_list, b)
        /\ UNCHANGED <<io, streaming, active_buf>>
    BY <1>1 DEF Qbuf, ioVars
  <2>2. b \notin Range(ready_queue) /\ b # active_buf
    BY <1>0, <2>1 DEF HeldInv
  <2>3. CASE streaming
    <3>1. /\ buf_state' = [buf_state EXCEPT ![b] = "active"]
          /\ ready_queue' = Append(ready_queue, b)
      BY <1>1, <2>3 DEF Qbuf
    <3>2. /\ Append(ready_queue, b) \in Seq(Buffers)
          /\ Range(Append(ready_queue, b)) = Range(ready_queue) \cup {b}
          /\ IsInjective(Append(ready_queue, b))
      BY <1>0, <2>2, AppendRange DEF HeldInv
    <3>3. HeldInv'
      BY <1>0, <2>1, <2>2, <3>1, <3>2 DEF HeldInv
    <3> QED  BY <2>1, <2>3, <3>3 DEF QueuedInv, IsQuiet
  <2>4. CASE ~streaming
    <3>1. /\ buf_state' = [buf_state EXCEPT ![b] = "queued"]
          /\ UNCHANGED ready_queue
      BY <1>1, <2>4 DEF Qbuf
    <3>2. HeldInv'
      BY <1>0, <2>1, <2>2, <3>1 DEF HeldInv
    <3>3. /\ queued_list \in Seq(Buffers) /\ IsInjective(queued_list)
          /\ \A c \in Buffers : /\ buf_state[c] # "user" <=> c \in Range(queued_list)
                                /\ buf_state[c] # "done"
      BY <1>0, <2>1, <2>4 DEF QueuedInv, IsQuiet
    <3>4. /\ queued_list' \in Seq(Buffers) /\ IsInjective(queued_list')
          /\ Range(queued_list') = Range(queued_list) \cup {b}
      BY <2>1, <3>3, AppendRange
    <3>5. \A c \in Buffers : /\ buf_state'[c] # "user" <=> c \in Range(queued_list')
                             /\ buf_state'[c] # "done"
      BY <1>0, <3>1, <3>3, <3>4 DEF HeldInv
    <3> QED  BY <3>2, <3>4, <3>5 DEF QueuedInv
  <2> QED  BY <2>3, <2>4
<1>2. ASSUME NEW b \in Buffers, Dqbuf(b) PROVE HeldInv' /\ QueuedInv'
  <2>1. /\ io = "idle" /\ streaming /\ buf_state[b] = "done"
        /\ buf_state' = [buf_state EXCEPT ![b] = "user"]
        /\ UNCHANGED <<io, streaming, ready_queue, active_buf>>
    BY <1>2 DEF Dqbuf, ioVars
  <2>2. HeldInv'
    BY <1>0, <2>1 DEF HeldInv
  <2> QED  BY <2>1, <2>2 DEF QueuedInv, IsQuiet
<1>3. CASE Streamon
  <2>1. /\ io = "idle" /\ ~streaming
        /\ buf_state' = [b \in Buffers |->
                            IF b \in Range(queued_list) THEN "active" ELSE buf_state[b]]
        /\ ready_queue' = ready_queue \o queued_list
        /\ io' = "start"
        /\ UNCHANGED <<queued_list, active_buf>>
    BY <1>3 DEF Streamon, vbVars
  <2>2. ready_queue = <<>> /\ active_buf = None
    BY <1>0, <2>1 DEF HaltInv, QuietInv, IsQuiet
  <2>3. /\ queued_list \in Seq(Buffers) /\ IsInjective(queued_list)
        /\ \A b \in Buffers : /\ buf_state[b] # "user" <=> b \in Range(queued_list)
                              /\ buf_state[b] # "done"
    BY <1>0, <2>1 DEF QueuedInv, IsQuiet
  <2>4. ready_queue' = queued_list
    BY <2>1, <2>2, <2>3, ConcatEmptySeq
  <2>5. Range(queued_list) \subseteq Buffers
    BY <2>3 DEF Range
  <2>6. \A b \in Buffers : buf_state[b] # "active"
    BY <1>0, <2>2, BuffersAssumption, EmptyRange DEF HeldInv
  <2>7. HeldInv'
    BY <1>0, <2>1, <2>2, <2>3, <2>4, <2>5, <2>6, BuffersAssumption DEF HeldInv
  <2>8. QueuedInv'
    BY <1>0, <2>1, <2>3 DEF QueuedInv, HeldInv
  <2> QED  BY <2>7, <2>8
<1>4. CASE Streamoff
  <2>1. UNCHANGED <<streaming, queued_list, buf_state, ready_queue, active_buf>>
    BY <1>4 DEF Streamoff, vbVars, bufVars
  <2>2. io' = "stop" \/ io' = "stopped"
    BY <1>4 DEF Streamoff
  <2> QED  BY <1>0, <2>1, <2>2 DEF HeldInv, QueuedInv, IsQuiet
<1> QED  BY <1>1, <1>2, <1>3, <1>4 DEF Ioctl

\* The steps of starting and stopping that move buffers find none with the driver, or
\* leave none with it; the others change nothing the invariant speaks of.
LEMMA HeldStartStop ==
    ASSUME ~SubmissionFails, OwnedInv, StartStop
    PROVE  HeldInv' /\ QueuedInv'
<1>0. HaltInv /\ HeldInv /\ QueuedInv
  BY DEF OwnedInv
<1> DEFINE gone == \A b \in Buffers : buf_state'[b] # "active"
<1>1. ASSUME buf_state' \in [Buffers -> {"user", "queued", "active", "done"}],
             ready_queue' = <<>>, active_buf' = None, gone
      PROVE  HeldInv'
  BY <1>1, EmptyRange, BuffersAssumption DEF HeldInv
<1>2. CASE StartFailed
  <2>1. io = "failed" /\ ready_queue = <<>> /\ active_buf = None
    BY <1>0, <1>2 DEF StartFailed, HaltInv, QuietInv, IsQuiet
  <2>2. /\ buf_state' = [b \in Buffers |->
                            IF buf_state[b] = "active" THEN "queued" ELSE buf_state[b]]
        /\ io' = "idle" /\ UNCHANGED <<ready_queue, active_buf, streaming, queued_list>>
    BY <1>2 DEF StartFailed, vbVars
  <2>3. HeldInv'
    BY <1>0, <1>1, <2>1, <2>2 DEF HeldInv
  <2>4. QueuedInv'
    BY <1>0, <2>1, <2>2 DEF HeldInv, QueuedInv, IsQuiet
  <2> QED  BY <2>3, <2>4
<1>3. CASE StopReturned
  <2>1. ready_queue = <<>> /\ active_buf = None
    BY <1>0, <1>3 DEF StopReturned, HaltInv, QuietInv, IsQuiet
  <2>2. /\ buf_state' = [b \in Buffers |-> "user"] /\ queued_list' = <<>>
        /\ UNCHANGED <<ready_queue, active_buf>>
    BY <1>3 DEF StopReturned
  <2>3. HeldInv'
    BY <1>1, <2>1, <2>2
  <2>4. QueuedInv'
    BY <2>2, EmptyRange DEF QueuedInv
  <2> QED  BY <2>3, <2>4
<1>4. CASE StartReset
  <2>1. active_buf = None
    BY <1>0, <1>4 DEF StartReset, ResetTo, Io, HaltInv, QuietInv, IsQuiet
  <2>2. /\ io = "start" /\ io' = "setup" /\ active_buf' = None
        /\ UNCHANGED <<ready_queue, buf_state, streaming, queued_list>>
    BY <1>4 DEF StartReset, ResetTo, Io, vbVars
  <2> QED  BY <1>0, <2>1, <2>2 DEF HeldInv, QueuedInv, IsQuiet
<1>5. CASE SetupHardware \/ StartReady \/ SubmitUrb \/ StartDone \/ ErrorReady
  <2>1. UNCHANGED <<queued_list, buf_state, ready_queue, active_buf>>
    BY <1>5 DEF SetupHardware, StartReady, SubmitUrb, StartDone, ErrorReady, vbVars, bufVars
  <2>2. urb_sub \in Nat
    BY <1>0 DEF HaltInv, UrbInv
  <2>3. IsQuiet' /\ io' # "stopped" => IsQuiet /\ io # "stopped"
    BY <1>5, <2>2 DEF SetupHardware, StartReady, SubmitUrb, StartDone, ErrorReady, Io, IsQuiet,
                SubmissionFails, vbVars
  <2> QED  BY <1>0, <2>1, <2>3 DEF HeldInv, QueuedInv
<1>6. CASE KillUrb \/ StopVideo \/ StopReady \/ StopCancel
  <2>1. UNCHANGED <<queued_list, buf_state, ready_queue, active_buf>>
    BY <1>6 DEF KillUrb, StopVideo, StopReady, StopCancel, vbVars, bufVars
  <2>2. IsQuiet' /\ io' # "stopped" => IsQuiet /\ io # "stopped"
    BY <1>6 DEF KillUrb, StopVideo, StopReady, StopCancel, Io, IsQuiet, vbVars
  <2> QED  BY <1>0, <2>1, <2>2 DEF HeldInv, QueuedInv
<1>7. CASE ErrorDrain
  <2>1. io = "errorKill" /\ active_buf = None
    BY <1>0, <1>7 DEF ErrorDrain, ReturnReady, Io, HaltInv, QuietInv, IsQuiet
  <2>2. /\ buf_state' = [b \in Buffers |->
                            IF b \in Range(ready_queue) /\ buf_state[b] = "active"
                              THEN "queued" ELSE buf_state[b]]
        /\ ready_queue' = <<>> /\ io' = "failed"
        /\ UNCHANGED <<active_buf, streaming, queued_list>>
    BY <1>7 DEF ErrorDrain, ReturnReady, Io, vbVars
  <2>3. HeldInv'
    BY <1>0, <1>1, <2>1, <2>2, BuffersAssumption DEF HeldInv
  <2>4. QueuedInv'
    BY <1>0, <2>1, <2>2 DEF HeldInv, QueuedInv, IsQuiet
  <2> QED  BY <2>3, <2>4
<1>8. CASE StopFlush
  <2>1. /\ buf_state' = [b \in Buffers |->
                            IF /\ b \in {c \in Range(ready_queue) \cup {active_buf} : c # None}
                               /\ buf_state[b] = "active"
                              THEN "done" ELSE buf_state[b]]
        /\ ready_queue' = <<>> /\ active_buf' = None /\ io' = "stopped"
    BY <1>8 DEF StopFlush, StopReturnBuffers, Io
  <2>2. HeldInv'
    BY <1>0, <1>1, <2>1, BuffersAssumption DEF HeldInv
  <2> QED  BY <2>1, <2>2 DEF QueuedInv
<1> QED  BY <1>2, <1>3, <1>4, <1>5, <1>6, <1>7, <1>8 DEF StartStop

\* up_on_frame_start takes the head of the ready queue; a buffer that is full or whose
\* frame is over is done and no longer the active one.
LEMMA HeldWorker == OwnedInv /\ Worker => HeldInv' /\ QueuedInv'
<1> SUFFICES ASSUME OwnedInv, Worker PROVE HeldInv' /\ QueuedInv'
  OBVIOUS
<1>0. HaltInv /\ HeldInv /\ QueuedInv
  BY DEF OwnedInv
<1>1. UNCHANGED <<io, urb_sub, streaming, queued_list>>
  BY DEF Worker, WorkStart, WorkFetch, WorkSkip, WorkBoundary, WorkPass, WorkPayload,
         WorkReturn, FinishWork, ioVars, vbVars
<1>2. ~IsQuiet
  <2>1. work # "idle" \/ pending
    BY DEF Worker, WorkStart, WorkFetch, WorkSkip, WorkBoundary, WorkPass, WorkPayload,
           WorkReturn, FinishWork, PacketHere, InDecode
  <2> QED  BY <1>0, <2>1 DEF HaltInv, QuietInv
<1>3. QueuedInv'
  BY <1>1, <1>2 DEF QueuedInv, IsQuiet
<1> DEFINE freed == IF active_buf = None THEN buf_state ELSE DoneState(active_buf)
<1>4. /\ freed \in [Buffers -> {"user", "queued", "active", "done"}]
      /\ \A b \in Buffers : freed[b] = "active" <=> b \in Range(ready_queue)
  BY <1>0, BuffersAssumption DEF HeldInv, DoneState
<1> HIDE DEF freed
<1>5. CASE WorkStart \/ WorkFetch \/ WorkSkip \/ WorkPass \/ WorkReturn
  <2>1. UNCHANGED <<buf_state, ready_queue, active_buf>>
    BY <1>5 DEF WorkStart, WorkFetch, WorkSkip, WorkPass, WorkReturn, FinishWork, bufVars
  <2> QED  BY <1>0, <1>3, <2>1 DEF HeldInv
<1>6. CASE WorkBoundary
  <2>1. CASE NewFrame
    <3>1. buf_state' = freed /\ TakeReady
      BY <1>6, <2>1 DEF WorkBoundary, StartFrame, freed
    <3>2. CASE ready_queue # <<>>
      <4>1. active_buf' = Head(ready_queue) /\ ready_queue' = Tail(ready_queue)
        BY <3>1, <3>2 DEF TakeReady
      <4>2. /\ Head(ready_queue) \in Buffers /\ Tail(ready_queue) \in Seq(Buffers)
            /\ Range(ready_queue) = {Head(ready_queue)} \cup Range(Tail(ready_queue))
            /\ IsInjective(Tail(ready_queue))
            /\ Head(ready_queue) \notin Range(Tail(ready_queue))
        BY <1>0, <3>2, HeadRange DEF HeldInv
      <4> QED  BY <1>3, <1>4, <3>1, <4>1, <4>2 DEF HeldInv
    <3>3. CASE ready_queue = <<>>
      <4>1. active_buf' = None /\ ready_queue' = <<>>
        BY <3>1, <3>3 DEF TakeReady
      <4> QED
        BY <1>3, <1>4, <3>1, <3>3, <4>1, EmptyRange, BuffersAssumption DEF HeldInv
    <3> QED  BY <3>2, <3>3
  <2>2. CASE ~NewFrame
    <3>1. UNCHANGED <<buf_state, ready_queue, active_buf>>
      BY <1>6, <2>2 DEF WorkBoundary, bufVars
    <3> QED  BY <1>0, <1>3, <3>1 DEF HeldInv
  <2> QED  BY <2>1, <2>2
<1>7. CASE WorkPayload
  <2>1. /\ UNCHANGED ready_queue
        /\ \/ UNCHANGED <<buf_state, active_buf>>
           \/ active_buf # None /\ buf_state' = DoneState(active_buf) /\ active_buf' = None
    BY <1>7 DEF WorkPayload
  <2>2. CASE UNCHANGED <<buf_state, active_buf>>
    BY <1>0, <1>3, <2>1, <2>2 DEF HeldInv
  <2>3. CASE active_buf' = None /\ buf_state' = freed
    <3>1. None \notin Range(ready_queue)
      BY <1>0, BuffersAssumption DEF HeldInv, Range
    <3> QED  BY <1>0, <1>3, <1>4, <2>1, <2>3, <3>1, BuffersAssumption DEF HeldInv
  <2> QED  BY <2>1, <2>2, <2>3 DEF freed
<1> QED  BY <1>5, <1>6, <1>7 DEF Worker

LEMMA OwnedStep == ~SubmissionFails /\ OwnedInv /\ [Next]_vars => OwnedInv'
<1> SUFFICES ASSUME ~SubmissionFails, OwnedInv, [Next]_vars PROVE OwnedInv'
  OBVIOUS
<1>1. HaltInv'
  BY HaltStep DEF OwnedInv
<1>2. HeldInv' /\ QueuedInv'
  <2>1. CASE Ioctl
    BY <2>1, HeldIoctl
  <2>2. CASE StartStop
    BY <2>2, HeldStartStop
  <2>3. CASE Worker
    BY <2>3, HeldWorker
  <2>4. CASE Complete \/ Callback \/ UNCHANGED vars
    <3>1. UNCHANGED <<io, urb_sub, streaming, queued_list, buf_state, ready_queue, active_buf>>
      BY <2>4 DEF Complete, Callback, CbPush, CbQueueWork, CbRetest, CbSubmit, vars,
                  ioVars, vbVars, bufVars
    <3> QED  BY <3>1 DEF OwnedInv, HeldInv, QueuedInv, IsQuiet
  <2> QED  BY <2>1, <2>2, <2>3, <2>4 DEF Next
<1> QED  BY <1>1, <1>2 DEF OwnedInv

LEMMA OwnedOnce == OwnedInv => OwnershipExact
<1> SUFFICES ASSUME OwnedInv PROVE OwnershipExact
  OBVIOUS
<1>0. HeldInv
  BY DEF OwnedInv
<1>1. Range(ready_queue) \subseteq Buffers
  BY <1>0 DEF HeldInv, Range
<1>2. CASE active_buf = None
  <2>1. ready_queue \o <<>> = ready_queue
    BY <1>0, ConcatEmptySeq DEF HeldInv
  <2> QED  BY <1>0, <1>1, <1>2, <2>1, BuffersAssumption DEF HeldInv, OwnershipExact
<1>3. CASE active_buf # None
  <2>1. ready_queue \o <<active_buf>> = Append(ready_queue, active_buf)
    BY <1>0, <1>3 DEF HeldInv
  <2>2. /\ Range(Append(ready_queue, active_buf)) = Range(ready_queue) \cup {active_buf}
        /\ IsInjective(Append(ready_queue, active_buf))
    BY <1>0, <1>3, AppendRange DEF HeldInv
  <2> QED  BY <1>0, <1>1, <1>3, <2>1, <2>2 DEF HeldInv, OwnershipExact
<1> QED  BY <1>2, <1>3

LEMMA OwnedQuiet == OwnedInv => StopQuiesces
  BY EmptyRange, BuffersAssumption
     DEF OwnedInv, HaltInv, QuietInv, IsQuiet, HeldInv, StopQuiesces

\* A buffer the driver was given is in exactly one place, once, whatever the order in
\* which the three threads run, for any buffers, URBs and sessions.
THEOREM BuffersOwned ==
    ASSUME FailingSubmits \subseteq {0}
    PROVE  Spec => []OwnershipExact
<1> QED  BY OwnedOnce, OwnedInit, OwnedStep, NoFailure, PTL DEF Spec

\* When up_stop_streaming returns, the URBs, the completion handlers and the worker are
\* gone, no data is left and no buffer is the driver's, for any number of URBs, buffers
\* and sessions.
THEOREM StopIsQuiet ==
    ASSUME FailingSubmits \subseteq {0}
    PROVE  Spec => []StopQuiesces
<1> QED  BY OwnedQuiet, OwnedInit, OwnedStep, NoFailure, PTL DEF Spec

(***************************************************************************)
(* The driver implements CaptureQueue.                                     *)
(***************************************************************************)
\* Only a buffer that was completed, and not dequeued since, holds a frame.
FrameInv ==
    /\ frames = [b \in Buffers |-> frames[b]]
    /\ \A b \in Buffers : /\ frames[b].ok \in BOOLEAN
                          /\ buf_state[b] # "done" => ~frames[b].ok

\* What a step does to the buffers as the application sees them: nothing, or the driver
\* returns the one it is filling.
LEMMA WorkerReturns ==
    ASSUME OwnedInv, Worker
    PROVE  \/ UNCHANGED <<buf_state, frames>>
           \/ \E f \in {NoFrame, [ok |-> TRUE, units |-> payload \o pktUnits]} :
                 /\ active_buf \in Buffers /\ buf_state[active_buf] = "active"
                 /\ buf_state' = [buf_state EXCEPT ![active_buf] = "done"]
                 /\ frames' = [frames EXCEPT ![active_buf] = f]
<1> USE DEF bufVars
<1>0. active_buf # None => active_buf \in Buffers /\ buf_state[active_buf] = "active"
  BY DEF OwnedInv, HeldInv
<1>1. CASE WorkStart \/ WorkFetch \/ WorkSkip \/ WorkPass \/ WorkReturn
  BY <1>1 DEF WorkStart, WorkFetch, WorkSkip, WorkPass, WorkReturn, FinishWork
<1>2. CASE WorkBoundary
  BY <1>0, <1>2 DEF WorkBoundary, StartFrame, DoneState, DoneFrame
<1>3. CASE WorkPayload
  BY <1>0, <1>3 DEF WorkPayload, DoneState, DoneFrame
<1> QED  BY <1>1, <1>2, <1>3 DEF Worker

LEMMA FrameStep == OwnedInv /\ FrameInv /\ [Next]_vars => FrameInv'
<1> SUFFICES ASSUME OwnedInv, FrameInv, [Next]_vars PROVE FrameInv'
  OBVIOUS
<1>0. buf_state \in [Buffers -> {"user", "queued", "active", "done"}]
  BY DEF OwnedInv, HeldInv
<1>1. CASE Ioctl
  <2>1. ASSUME NEW b \in Buffers, Qbuf(b) PROVE FrameInv'
    <3>1. UNCHANGED frames /\ \A c \in Buffers : buf_state[c] = "done" => buf_state'[c] = "done"
      BY <1>0, <2>1 DEF Qbuf
    <3>2. \A c \in Buffers : buf_state'[c] # "done" => buf_state[c] # "done"
      BY <3>1
    <3> QED  BY <3>1, <3>2 DEF FrameInv
  <2>2. ASSUME NEW b \in Buffers, Dqbuf(b) PROVE FrameInv'
    BY <1>0, <2>2 DEF Dqbuf, FrameInv, NoFrame
  <2>3. CASE Streamon
    BY <1>0, <2>3 DEF Streamon, FrameInv, OwnedInv, QueuedInv, IsQuiet
  <2>4. CASE Streamoff
    BY <2>4 DEF Streamoff, FrameInv, bufVars
  <2> QED  BY <1>1, <2>1, <2>2, <2>3, <2>4 DEF Ioctl
<1>2. CASE StartStop
  <2>1. CASE StartFailed
    BY <1>0, <2>1 DEF StartFailed, FrameInv
  <2>2. CASE StopReturned
    BY <2>2 DEF StopReturned, FrameInv, NoFrame
  <2>3. CASE ErrorDrain
    BY <1>0, <2>3 DEF ErrorDrain, ReturnReady, FrameInv
  <2>4. CASE StopFlush
    BY <1>0, <2>4 DEF StopFlush, StopReturnBuffers, FrameInv
  <2>5. CASE \/ StartReset \/ SetupHardware \/ StartReady \/ SubmitUrb \/ StartDone
             \/ ErrorReady \/ KillUrb \/ StopVideo \/ StopReady \/ StopCancel
    <3>1. UNCHANGED <<buf_state, frames>>
      BY <2>5 DEF StartReset, ResetTo, SetupHardware, StartReady, SubmitUrb, StartDone,
                  ErrorReady, KillUrb, StopVideo, StopReady, StopCancel, bufVars
    <3> QED  BY <3>1 DEF FrameInv
  <2> QED  BY <1>2, <2>1, <2>2, <2>3, <2>4, <2>5 DEF StartStop
<1>3. CASE Worker
  <2>1. CASE UNCHANGED <<buf_state, frames>>
    BY <2>1 DEF FrameInv
  <2>2. ASSUME NEW f \in {NoFrame, [ok |-> TRUE, units |-> payload \o pktUnits]},
               active_buf \in Buffers,
               buf_state' = [buf_state EXCEPT ![active_buf] = "done"],
               frames' = [frames EXCEPT ![active_buf] = f]
        PROVE  FrameInv'
    <3>1. NoFrame.ok = FALSE /\ [ok |-> TRUE, units |-> payload \o pktUnits].ok = TRUE
      BY DEF NoFrame
    <3>2. f.ok = FALSE \/ f.ok = TRUE
      BY <3>1
    <3> QED  BY <1>0, <2>2, <3>2 DEF FrameInv
  <2> QED  BY <1>3, <2>1, <2>2, WorkerReturns
<1>4. CASE Complete \/ Callback \/ UNCHANGED vars
  BY <1>4 DEF Complete, Callback, CbPush, CbQueueWork, CbRetest, CbSubmit, vars, bufVars,
              FrameInv
<1> QED  BY <1>1, <1>2, <1>3, <1>4 DEF Next

\* The refinement mapping of `Capture`, by name.
Phase == IF io = "idle" THEN IF streaming THEN "on" ELSE "off"
         ELSE IF io \in {"stop", "stopReady", "stopKill", "stopFlush", "stopped"}
           THEN "stopping" ELSE "starting"
Owner == [b \in Buffers |-> IF buf_state[b] \in {"queued", "active"} THEN "device"
                            ELSE buf_state[b]]
Good  == {b \in Buffers : frames[b].ok}

CaptureStep == [Capture!Next]_(Capture!vars)

LEMMA CaptureStutter ==
    Phase' = Phase /\ Owner' = Owner /\ Good' = Good => CaptureStep
  BY DEF CaptureStep, Capture!vars, Phase, Owner, Good

LEMMA CaptureQueues ==
    ASSUME NEW b \in Buffers, Phase \in {"off", "on"}, Phase' = Phase, Owner[b] = "user",
           Owner' = [Owner EXCEPT ![b] = "device"], Good' = Good
    PROVE  CaptureStep
  BY DEF CaptureStep, Capture!Next, Capture!Queue, Phase, Owner, Good

LEMMA CaptureDequeues ==
    ASSUME NEW b \in Buffers, Phase = "on", Phase' = Phase, Owner[b] = "done",
           Owner' = [Owner EXCEPT ![b] = "user"], Good' = Good \ {b}
    PROVE  CaptureStep
  BY DEF CaptureStep, Capture!Next, Capture!Dequeue, Phase, Owner, Good

LEMMA CaptureCalls ==
    ASSUME Owner' = Owner, Good' = Good,
           \/ Phase = "off" /\ Phase' = "starting"
           \/ Phase = "starting" /\ Phase' \in {"on", "off"}
           \/ Phase \in {"off", "on"} /\ Phase' = "stopping"
    PROVE  CaptureStep
  BY DEF CaptureStep, Capture!Next, Capture!Start, Capture!Returns, Capture!StartReturns,
         Capture!Stop, Phase, Owner, Good

LEMMA CaptureStops ==
    ASSUME Phase = "stopping", Phase' = "off", Owner' = [b \in Buffers |-> "user"],
           Good' = {}
    PROVE  CaptureStep
  BY DEF CaptureStep, Capture!Next, Capture!Returns, Capture!StopReturns, Phase, Owner, Good

LEMMA CaptureGivesBack ==
    ASSUME NEW done \in SUBSET Buffers, NEW whole \in SUBSET done,
           Phase # "off", Phase' = Phase,
           done # {}, \A b \in done : Owner[b] = "device",
           Owner' = [b \in Buffers |-> IF b \in done THEN "done" ELSE Owner[b]],
           Good' = Good \cup whole
    PROVE  CaptureStep
  BY DEF CaptureStep, Capture!Next, Capture!GiveBack, Phase, Owner, Good

RefInv == OwnedInv /\ FrameInv

LEMMA RefIoctl == RefInv /\ Ioctl => CaptureStep
<1> SUFFICES ASSUME RefInv, Ioctl PROVE CaptureStep
  OBVIOUS
<1>0. buf_state \in [Buffers -> {"user", "queued", "active", "done"}]
  BY DEF RefInv, OwnedInv, HeldInv
<1>1. ASSUME NEW b \in Buffers, Qbuf(b) PROVE CaptureStep
  <2>1. /\ io = "idle" /\ UNCHANGED <<io, streaming, frames>>
        /\ buf_state[b] = "user"
        /\ \E s \in {"queued", "active"} : buf_state' = [buf_state EXCEPT ![b] = s]
    BY <1>1 DEF Qbuf, ioVars
  <2>2. Phase \in {"off", "on"} /\ Phase' = Phase /\ Good' = Good
    BY <2>1 DEF Phase, Good
  <2>3. Owner[b] = "user" /\ Owner' = [Owner EXCEPT ![b] = "device"]
    BY <1>0, <2>1 DEF Owner
  <2> QED  BY <2>2, <2>3, CaptureQueues
<1>2. ASSUME NEW b \in Buffers, Dqbuf(b) PROVE CaptureStep
  <2>1. /\ io = "idle" /\ streaming /\ UNCHANGED <<io, streaming>>
        /\ buf_state[b] = "done"
        /\ buf_state' = [buf_state EXCEPT ![b] = "user"]
        /\ frames' = [frames EXCEPT ![b] = NoFrame]
    BY <1>2 DEF Dqbuf, ioVars
  <2>2. Phase = "on" /\ Phase' = Phase
    BY <2>1 DEF Phase
  <2>3. Owner[b] = "done" /\ Owner' = [Owner EXCEPT ![b] = "user"]
    BY <1>0, <2>1 DEF Owner
  <2>4. Good' = Good \ {b}
    BY <2>1 DEF Good, RefInv, FrameInv, NoFrame
  <2> QED  BY <2>2, <2>3, <2>4, CaptureDequeues
<1>3. CASE Streamon
  <2>1. /\ io = "idle" /\ ~streaming /\ io' = "start" /\ UNCHANGED frames
        /\ buf_state' = [b \in Buffers |->
                            IF b \in Range(queued_list) THEN "active" ELSE buf_state[b]]
    BY <1>3 DEF Streamon
  <2>2. \A b \in Buffers : /\ buf_state[b] # "user" <=> b \in Range(queued_list)
                           /\ buf_state[b] # "done"
    BY <2>1 DEF RefInv, OwnedInv, QueuedInv, IsQuiet
  <2>3. Phase = "off" /\ Phase' = "starting" /\ Good' = Good
    BY <2>1 DEF Phase, Good
  <2>4. Owner' = Owner
    BY <1>0, <2>1, <2>2 DEF Owner
  <2> QED  BY <2>3, <2>4, CaptureCalls
<1>4. CASE Streamoff
  <2>1. /\ io = "idle" /\ io' \in {"stop", "stopped"}
        /\ UNCHANGED <<streaming, buf_state, frames>>
    BY <1>4 DEF Streamoff, vbVars, bufVars
  <2>2. Phase \in {"off", "on"} /\ Phase' = "stopping" /\ Owner' = Owner /\ Good' = Good
    BY <2>1 DEF Phase, Owner, Good
  <2> QED  BY <2>2, CaptureCalls
<1> QED  BY <1>1, <1>2, <1>3, <1>4 DEF Ioctl

LEMMA RefStartStop == RefInv /\ StartStop => CaptureStep
<1> SUFFICES ASSUME RefInv, StartStop PROVE CaptureStep
  OBVIOUS
<1>0. buf_state \in [Buffers -> {"user", "queued", "active", "done"}]
  BY DEF RefInv, OwnedInv, HeldInv
<1>1. CASE StartFailed
  <2>1. /\ io = "failed" /\ io' = "idle" /\ UNCHANGED <<streaming, frames>>
        /\ buf_state' = [b \in Buffers |->
                            IF buf_state[b] = "active" THEN "queued" ELSE buf_state[b]]
    BY <1>1 DEF StartFailed, vbVars
  <2>2. Phase = "starting" /\ Phase' \in {"on", "off"} /\ Good' = Good
    BY <2>1 DEF Phase, Good
  <2>3. Owner' = Owner
    BY <1>0, <2>1 DEF Owner
  <2> QED  BY <2>2, <2>3, CaptureCalls
<1>2. CASE StopReturned
  <2>1. /\ io = "stopped" /\ io' = "idle" /\ streaming' = FALSE
        /\ buf_state' = [b \in Buffers |-> "user"]
        /\ frames' = [b \in Buffers |-> NoFrame]
    BY <1>2 DEF StopReturned
  <2>2. Phase = "stopping" /\ Phase' = "off"
    BY <2>1 DEF Phase
  <2>3. Owner' = [b \in Buffers |-> "user"]
    BY <2>1 DEF Owner
  <2>4. Good' = {}
    BY <2>1 DEF Good, NoFrame
  <2> QED  BY <2>2, <2>3, <2>4, CaptureStops
<1>3. CASE StartDone
  <2>1. /\ io = "submit" /\ io' = "idle" /\ streaming' = TRUE
        /\ UNCHANGED <<buf_state, frames>>
    BY <1>3 DEF StartDone, Io, bufVars
  <2>2. Phase = "starting" /\ Phase' \in {"on", "off"} /\ Owner' = Owner /\ Good' = Good
    BY <2>1 DEF Phase, Owner, Good
  <2> QED  BY <2>2, CaptureCalls
<1>4. CASE ErrorDrain
  <2>1. /\ io = "errorKill" /\ io' = "failed" /\ UNCHANGED <<streaming, frames>>
        /\ buf_state' = [b \in Buffers |->
                            IF b \in Range(ready_queue) /\ buf_state[b] = "active"
                              THEN "queued" ELSE buf_state[b]]
    BY <1>4 DEF ErrorDrain, ReturnReady, Io, vbVars
  <2>2. Phase' = Phase /\ Good' = Good
    BY <2>1 DEF Phase, Good
  <2>3. Owner' = Owner
    BY <1>0, <2>1 DEF Owner
  <2> QED  BY <2>2, <2>3, CaptureStutter
<1>5. CASE StopFlush
  <2> DEFINE mine == {c \in Range(ready_queue) \cup {active_buf} : c # None}
             done == {b \in Buffers : b \in mine /\ buf_state[b] = "active"}
  <2>1. /\ io = "stopFlush" /\ io' = "stopped" /\ UNCHANGED frames
        /\ buf_state' = [b \in Buffers |-> IF b \in mine /\ buf_state[b] = "active"
                                             THEN "done" ELSE buf_state[b]]
    BY <1>5 DEF StopFlush, StopReturnBuffers, Io
  <2> HIDE DEF mine
  <2>2. Phase = "stopping" /\ Phase' = Phase /\ Good' = Good
    BY <2>1 DEF Phase, Good
  <2>3. /\ Owner' = [b \in Buffers |-> IF b \in done THEN "done" ELSE Owner[b]]
        /\ \A b \in done : Owner[b] = "device"
    BY <1>0, <2>1 DEF Owner
  <2>4. CASE done = {}
    <3>1. Owner' = Owner
      BY <2>3, <2>4 DEF Owner
    <3> QED  BY <2>2, <3>1, CaptureStutter
  <2>5. CASE done # {}
    <3>1. done \in SUBSET Buffers /\ {} \in SUBSET done
      OBVIOUS
    <3> HIDE DEF done
    <3>2. Good' = Good \cup {}
      BY <2>2
    <3> QED  BY <2>2, <2>3, <2>5, <3>1, <3>2, CaptureGivesBack
  <2> QED  BY <2>4, <2>5
<1>6. CASE \/ StartReset \/ SetupHardware \/ StartReady \/ SubmitUrb
           \/ ErrorReady \/ KillUrb \/ StopVideo \/ StopReady \/ StopCancel
  <2>1. UNCHANGED <<streaming, buf_state, frames>>
    BY <1>6 DEF StartReset, ResetTo, SetupHardware, StartReady, SubmitUrb, ErrorReady,
                KillUrb, StopVideo, StopReady, StopCancel, vbVars, bufVars
  <2>2. Phase' = Phase
    <3>1. \/ /\ io \in {"start", "setup", "ready", "submit", "error"}
             /\ io' \in {"setup", "ready", "submit", "error", "errorKill"}
          \/ /\ io \in {"stop", "stopReady", "stopKill"}
             /\ io' \in {"stopReady", "stopKill", "stopFlush"}
          \/ UNCHANGED io
      BY <1>6 DEF StartReset, ResetTo, SetupHardware, StartReady, SubmitUrb, ErrorReady,
                  KillUrb, StopVideo, StopReady, StopCancel, Io
    <3> QED  BY <2>1, <3>1 DEF Phase
  <2>3. Owner' = Owner /\ Good' = Good
    BY <2>1 DEF Owner, Good
  <2> QED  BY <2>2, <2>3, CaptureStutter
<1> QED  BY <1>1, <1>2, <1>3, <1>4, <1>5, <1>6 DEF StartStop

LEMMA RefWorker == RefInv /\ Worker => CaptureStep
<1> SUFFICES ASSUME RefInv, Worker PROVE CaptureStep
  OBVIOUS
<1>0. OwnedInv /\ FrameInv
  BY DEF RefInv
<1>1. UNCHANGED <<io, streaming>>
  BY DEF Worker, WorkStart, WorkFetch, WorkSkip, WorkBoundary, WorkPass, WorkPayload,
         WorkReturn, FinishWork, ioVars, vbVars
<1>2. io # "idle" \/ streaming
  <2>1. work # "idle" \/ pending
    BY DEF Worker, WorkStart, WorkFetch, WorkSkip, WorkBoundary, WorkPass, WorkPayload,
           WorkReturn, FinishWork, PacketHere, InDecode
  <2> QED  BY <1>0, <2>1 DEF OwnedInv, HaltInv, QuietInv, IsQuiet
<1>3. Phase # "off" /\ Phase' = Phase
  BY <1>1, <1>2 DEF Phase
<1>4. CASE UNCHANGED <<buf_state, frames>>
  <2>1. Owner' = Owner /\ Good' = Good
    BY <1>4 DEF Owner, Good
  <2> QED  BY <1>3, <2>1, CaptureStutter
<1>5. ASSUME NEW f \in {NoFrame, [ok |-> TRUE, units |-> payload \o pktUnits]},
             active_buf \in Buffers, buf_state[active_buf] = "active",
             buf_state' = [buf_state EXCEPT ![active_buf] = "done"],
             frames' = [frames EXCEPT ![active_buf] = f]
      PROVE  CaptureStep
  <2> DEFINE whole == IF f.ok THEN {active_buf} ELSE {}
  <2>1. buf_state \in [Buffers -> {"user", "queued", "active", "done"}]
    BY <1>0 DEF OwnedInv, HeldInv
  <2>2. /\ \A b \in {active_buf} : Owner[b] = "device"
        /\ Owner' = [b \in Buffers |-> IF b \in {active_buf} THEN "done" ELSE Owner[b]]
    BY <1>5, <2>1 DEF Owner
  <2>3. ~frames[active_buf].ok
    BY <1>0, <1>5 DEF FrameInv
  <2>4. Good' = Good \cup whole
    BY <1>0, <1>5, <2>3 DEF Good, FrameInv
  <2>5. whole \in SUBSET {active_buf} /\ {active_buf} \in SUBSET Buffers
    BY <1>5
  <2> HIDE DEF whole
  <2> QED  BY <1>3, <2>2, <2>4, <2>5, CaptureGivesBack
<1> QED  BY <1>0, <1>4, <1>5, WorkerReturns

LEMMA RefNext == RefInv /\ [Next]_vars => CaptureStep
<1> SUFFICES ASSUME RefInv, [Next]_vars PROVE CaptureStep
  OBVIOUS
<1>1. CASE Complete \/ Callback \/ UNCHANGED vars
  <2>1. UNCHANGED <<io, streaming, buf_state, frames>>
    BY <1>1 DEF Complete, Callback, CbPush, CbQueueWork, CbRetest, CbSubmit, vars, ioVars,
                vbVars, bufVars
  <2>2. Phase' = Phase /\ Owner' = Owner /\ Good' = Good
    BY <2>1 DEF Phase, Owner, Good
  <2> QED  BY <2>2, CaptureStutter
<1> QED  BY <1>1, RefIoctl, RefStartStop, RefWorker DEF Next

LEMMA RefInit == Init => RefInv /\ Capture!Init
<1> SUFFICES ASSUME Init PROVE RefInv /\ Capture!Init
  OBVIOUS
<1>1. /\ frames = [b \in Buffers |-> NoFrame] /\ buf_state = [b \in Buffers |-> "user"]
      /\ io = "idle" /\ streaming = FALSE
  BY DEF Init
<1>2. FrameInv
  BY <1>1 DEF FrameInv, NoFrame
<1>3. Capture!Init
  BY <1>1 DEF Capture!Init, NoFrame
<1> QED  BY <1>2, <1>3, OwnedInit DEF RefInv

\* To the application the driver is a capture device as CaptureQueue has it, for any
\* buffers, URBs, script and sizes.
THEOREM DriverIsCaptureDevice ==
    ASSUME FailingSubmits \subseteq {0}
    PROVE  Spec => ImplementsCaptureQueue
<1>1. RefInv /\ [Next]_vars => RefInv'
  BY OwnedStep, FrameStep, NoFailure DEF RefInv
<1>2. RefInv /\ [Next]_vars => [Capture!Next]_(Capture!vars)
  BY RefNext DEF CaptureStep
<1> QED  BY <1>1, <1>2, RefInit, PTL DEF Spec, ImplementsCaptureQueue, Capture!Safety

-----------------------------------------------------------------------------
(***************************************************************************)
(* Types and sizes, and the backlog, whether or not submissions fail.      *)
(***************************************************************************)
LEMMA Counts ==
    /\ NumUrbs \in Nat /\ FifoSize \in Nat /\ FrameSize \in Nat /\ MaxSession \in Nat
    /\ WorkspaceSize \in Nat /\ WorkspaceSize > FifoSize
  BY CountsAssumption

LEMMA ScriptTypes ==
    /\ Len(Script) \in Nat
    /\ \A i \in 1 .. Len(Script) :
          /\ Script[i].frame \in 0 .. 255 /\ Script[i].part \in Parts
          /\ Script[i].soi \in BOOLEAN /\ Script[i].eoi \in BOOLEAN
<1>1. Len(Script) \in Nat
  BY ScriptAssumption, LenProperties
<1>2. ASSUME NEW i \in 1 .. Len(Script)
      PROVE  Script[i] \in [frame : 0 .. 255, part : Parts, soi : BOOLEAN, eoi : BOOLEAN]
  BY ScriptAssumption, ElementOfSeq
<1> QED  BY <1>1, <1>2

\* A stretch of a sequence.
LEMMA Slice ==
    ASSUME NEW S, NEW s \in Seq(S), NEW m \in Nat \ {0}, NEW n \in Nat, n <= Len(s)
    PROVE  /\ SubSeq(s, m, n) \in Seq(S)
           /\ Len(SubSeq(s, m, n)) = IF m <= n THEN n - m + 1 ELSE 0
           /\ DOMAIN SubSeq(s, m, n) = 1 .. n - m + 1
           /\ \A i \in 1 .. n - m + 1 : SubSeq(s, m, n)[i] = s[m + i - 1]
<1>1. \A i \in m .. n : s[i] \in S
  BY LenProperties, ElementOfSeq
<1>2. /\ SubSeq(s, m, n) \in Seq(S)
      /\ Len(SubSeq(s, m, n)) = IF m <= n THEN n - m + 1 ELSE 0
      /\ \A i \in 1 .. n - m + 1 : SubSeq(s, m, n)[i] = s[m + i - 1]
  BY <1>1, SubSeqProperties
<1>3. DOMAIN SubSeq(s, m, n) = 1 .. n - m + 1
  BY <1>2, LenProperties
<1> QED  BY <1>2, <1>3

BoolTypes ==
    /\ hw_active \in BOOLEAN /\ client_ready \in BOOLEAN /\ streaming \in BOOLEAN
    /\ camera \in BOOLEAN /\ pending \in BOOLEAN

IoTypes ==
    /\ io \in {"idle", "start", "setup", "ready", "submit", "error", "errorKill",
              "failed", "stop", "stopReady", "stopKill", "stopFlush", "stopped"}
    /\ urb_sub \in 0 .. NumUrbs /\ kill \in 0 .. NumUrbs + 1
    /\ session \in 0 .. MaxSession /\ next_unit \in 1 .. Len(Script) + 1
    /\ io = "start" => session < MaxSession
    /\ camera \/ io = "setup" => session >= 1

BufTypes ==
    /\ queued_list \in Seq(Buffers) /\ ready_queue \in Seq(Buffers)
    /\ buf_state \in [Buffers -> {"user", "queued", "active", "done"}]
    /\ frames \in [Buffers -> [ok : BOOLEAN, units : Seq(Units)]]
    /\ active_buf \in Buffers \cup {None}
    /\ payload \in Seq(Units) /\ Len(payload) <= FrameSize

UrbTypes ==
    /\ in_flight \subseteq Urbs
    /\ cb \in [at : {"idle", "push", "queue", "resubmit", "submit"},
              urb : 0 .. NumUrbs, unit : Units \cup {<<>>}]
    /\ cb = Idle \/ cb.urb \in Urbs
    /\ cb.at = "push" => cb.unit \in Units
    /\ fifo \in Seq(Units) /\ Len(fifo) <= FifoSize

\* The decoder leaves at most the first part of a packet; its cursor and the packet it
\* has found lie in what it was given, and so does the residual.
WorkTypes ==
    /\ work \in {"idle", "fetch", "decode", "payload"}
    /\ workspace \in Seq(Units) /\ buf \in Seq(Units)
    /\ Len(workspace) <= WorkspaceSize
    /\ dec \in Flags /\ loc \in Flags
    /\ cur \in 0 .. Len(buf) /\ pkt \in 0 .. 2
    /\ work \in {"idle", "fetch"} => cur = 0 /\ Len(workspace) <= 1
    /\ work \in {"decode", "payload"} => Len(workspace) <= Len(buf)
    /\ work = "payload" => pkt \in 1 .. 2 /\ cur + pkt <= Len(buf)

TypeInv == BoolTypes /\ IoTypes /\ BufTypes /\ UrbTypes /\ WorkTypes

LEMMA InitTypeInv == Init => TypeInv
<1> SUFFICES ASSUME Init PROVE TypeInv
  OBVIOUS
<1>5. BoolTypes
  BY Zenon DEF Init, BoolTypes
<1>0. <<>> \in Seq(Units) /\ <<>> \in Seq(Buffers) /\ Len(<<>>) = 0
  BY EmptySeq
<1>1. IoTypes
  BY Counts, ScriptTypes DEF Init, IoTypes
<1>2. BufTypes
  BY <1>0, Counts DEF Init, BufTypes, NoFrame
<1>3. UrbTypes
  BY <1>0, Counts DEF Init, UrbTypes, Idle
<1>4. WorkTypes
  BY <1>0, Counts DEF Init, WorkTypes, FreshDec, Flags
<1> QED  BY <1>1, <1>2, <1>3, <1>4, <1>5 DEF TypeInv

\* The flags are set and cleared, or kept.
LEMMA BoolTypesStep == BoolTypes /\ [Next]_vars => BoolTypes'
<1> SUFFICES ASSUME BoolTypes, [Next]_vars PROVE BoolTypes'
  OBVIOUS
<1>1. hw_active' \in {hw_active, TRUE, FALSE}
  BY DEF Next, Ioctl, Qbuf, Dqbuf, Streamon, Streamoff, StartStop, StartFailed, StopReturned,
         StartReset, ResetTo, SetupHardware, StartReady, SubmitUrb, StartDone, ErrorReady,
         ErrorDrain, ReturnReady, KillUrb, StopVideo, StopReady, StopCancel, StopFlush,
         StopReturnBuffers, Complete, Callback, CbPush, CbQueueWork, CbRetest, CbSubmit,
         Worker, WorkStart, WorkFetch, WorkSkip, WorkBoundary, WorkPass, WorkPayload,
         WorkReturn, FinishWork, ioVars, vars
<1>2. client_ready' \in {client_ready, TRUE, FALSE}
  BY DEF Next, Ioctl, Qbuf, Dqbuf, Streamon, Streamoff, StartStop, StartFailed, StopReturned,
         StartReset, ResetTo, SetupHardware, StartReady, SubmitUrb, StartDone, ErrorReady,
         ErrorDrain, ReturnReady, KillUrb, StopVideo, StopReady, StopCancel, StopFlush,
         StopReturnBuffers, Complete, Callback, CbPush, CbQueueWork, CbRetest, CbSubmit,
         Worker, WorkStart, WorkFetch, WorkSkip, WorkBoundary, WorkPass, WorkPayload,
         WorkReturn, FinishWork, vars
<1>3. streaming' \in {streaming, TRUE, FALSE}
  BY DEF Next, Ioctl, Qbuf, Dqbuf, Streamon, Streamoff, StartStop, StartFailed, StopReturned,
         StartReset, ResetTo, SetupHardware, StartReady, SubmitUrb, StartDone, ErrorReady,
         ErrorDrain, ReturnReady, KillUrb, StopVideo, StopReady, StopCancel, StopFlush,
         StopReturnBuffers, Complete, Callback, CbPush, CbQueueWork, CbRetest, CbSubmit,
         Worker, WorkStart, WorkFetch, WorkSkip, WorkBoundary, WorkPass, WorkPayload,
         WorkReturn, FinishWork, vbVars, vars
<1>4. camera' \in {camera, TRUE, FALSE}
  BY DEF Next, Ioctl, Qbuf, Dqbuf, Streamon, Streamoff, StartStop, StartFailed, StopReturned,
         StartReset, ResetTo, SetupHardware, StartReady, SubmitUrb, StartDone, ErrorReady,
         ErrorDrain, ReturnReady, KillUrb, StopVideo, StopReady, StopCancel, StopFlush,
         StopReturnBuffers, Complete, Callback, CbPush, CbQueueWork, CbRetest, CbSubmit,
         Worker, WorkStart, WorkFetch, WorkSkip, WorkBoundary, WorkPass, WorkPayload,
         WorkReturn, FinishWork, camVars, vars
<1>5. pending' \in {pending, TRUE, FALSE}
  BY DEF Next, Ioctl, Qbuf, Dqbuf, Streamon, Streamoff, StartStop, StartFailed, StopReturned,
         StartReset, ResetTo, SetupHardware, StartReady, SubmitUrb, StartDone, ErrorReady,
         ErrorDrain, ReturnReady, KillUrb, StopVideo, StopReady, StopCancel, StopFlush,
         StopReturnBuffers, Complete, Callback, CbPush, CbQueueWork, CbRetest, CbSubmit,
         Worker, WorkStart, WorkFetch, WorkSkip, WorkBoundary, WorkPass, WorkPayload,
         WorkReturn, FinishWork, vars
<1> QED  BY <1>1, <1>2, <1>3, <1>4, <1>5, Zenon DEF BoolTypes

\* What the ioctl thread counts and where it is.
LEMMA IoTypesStep == TypeInv /\ [Next]_vars => IoTypes'
<1> SUFFICES ASSUME IoTypes, [Next]_vars PROVE IoTypes'
  BY DEF TypeInv
<1>1. CASE Ioctl
  <2>1. ASSUME NEW b \in Buffers, Qbuf(b) \/ Dqbuf(b) PROVE IoTypes'
    BY <2>1 DEF IoTypes, Qbuf, Dqbuf, ioVars, camVars
  <2>2. CASE Streamon
    BY <2>2 DEF IoTypes, Streamon, vbVars, camVars
  <2>3. CASE Streamoff
    BY <2>3 DEF IoTypes, Streamoff, vbVars, camVars
  <2> QED  BY <1>1, <2>1, <2>2, <2>3 DEF Ioctl
<1>2. CASE StartStop
  <2>1. CASE StartFailed \/ StopReturned
    BY <2>1 DEF IoTypes, StartFailed, StopReturned, vbVars, camVars
  <2>2. CASE StartReset
    BY <2>2, Counts DEF IoTypes, StartReset, ResetTo, Io, vbVars, camVars
  <2>3. CASE SetupHardware
    BY <2>3, ScriptTypes DEF IoTypes, SetupHardware, Io, vbVars
  <2>4. CASE StartReady
    BY <2>4, Counts DEF IoTypes, StartReady, Io, vbVars, camVars
  <2>5. CASE SubmitUrb \/ StartDone
    BY <2>5, Counts DEF IoTypes, SubmitUrb, StartDone, Io, vbVars, camVars
  <2>6. CASE ErrorReady \/ ErrorDrain
    BY <2>6, Counts DEF IoTypes, ErrorReady, ErrorDrain, ReturnReady, Io, vbVars, camVars
  <2>7. CASE KillUrb
    BY <2>7, Counts DEF IoTypes, KillUrb, killBound, vbVars, camVars
  <2>8. CASE StopVideo \/ StopReady
    <3>1. camera' => camera
      BY <2>8, Zenon DEF StopVideo, StopReady, camVars
    <3>2. io' \in {"stopReady", "stopKill"} /\ kill' \in {kill, 1}
          /\ UNCHANGED <<urb_sub, session, next_unit>>
      BY <2>8 DEF StopVideo, StopReady, Io, camVars
    <3> QED  BY <3>1, <3>2, Counts DEF IoTypes
  <2>9. CASE StopCancel \/ StopFlush
    BY <2>9, Counts DEF IoTypes, StopCancel, StopFlush, StopReturnBuffers, Io, vbVars, camVars
  <2> QED  BY <1>2, <2>1, <2>2, <2>3, <2>4, <2>5, <2>6, <2>7, <2>8, <2>9 DEF StartStop
<1>3. CASE Complete
  BY <1>3, ScriptTypes DEF IoTypes, Complete, ioVars, vbVars
<1>4. CASE Callback
  BY <1>4 DEF IoTypes, Callback, CbPush, CbQueueWork, CbRetest, CbSubmit, ioVars, vbVars,
              camVars
<1>5. CASE Worker
  BY <1>5 DEF IoTypes, Worker, WorkStart, WorkFetch, WorkSkip, WorkBoundary, WorkPass,
              WorkPayload, WorkReturn, FinishWork, ioVars, vbVars, camVars
<1>6. CASE UNCHANGED vars
  BY <1>6 DEF IoTypes, vars, ioVars, vbVars, camVars
<1> QED  BY <1>1, <1>2, <1>3, <1>4, <1>5, <1>6 DEF Next

\* The URBs and the kfifo.
LEMMA UrbTypesStep == TypeInv /\ [Next]_vars => UrbTypes'
<1> SUFFICES ASSUME TypeInv, [Next]_vars PROVE UrbTypes'
  OBVIOUS
<1>0. UrbTypes /\ IoTypes
  BY DEF TypeInv
<1>1. CASE UNCHANGED <<in_flight, cb, fifo>>
  BY <1>0, <1>1 DEF UrbTypes
<1>2. CASE SubmitUrb \/ KillUrb
  <2>1. UNCHANGED <<cb, fifo>> /\ in_flight' \subseteq Urbs
    <3>1. CASE SubmitUrb
      <4>1. urb_sub + 1 \in Urbs
        BY <1>0, <3>1, Counts DEF SubmitUrb, IoTypes, Urbs
      <4> QED  BY <1>0, <3>1, <4>1 DEF SubmitUrb, UrbTypes
    <3>2. CASE KillUrb
      BY <1>0, <3>2 DEF KillUrb, UrbTypes
    <3> QED  BY <1>2, <3>1, <3>2
  <2> QED  BY <1>0, <2>1 DEF UrbTypes
<1>3. CASE StartReset \/ StopFlush
  <2>1. UNCHANGED <<in_flight, cb>> /\ fifo' = <<>>
    BY <1>3 DEF StartReset, ResetTo, StopFlush, StopReturnBuffers, urbVars
  <2>2. <<>> \in Seq(Units) /\ Len(<<>>) = 0
    BY EmptySeq
  <2> QED  BY <1>0, <2>1, <2>2, Counts DEF UrbTypes
<1>4. CASE Complete
  <2>1. PICK u \in in_flight :
          /\ in_flight' = in_flight \ {u}
          /\ cb' \in {[at |-> "push", urb |-> u, unit |-> <<session, next_unit>>],
                      [at |-> "resubmit", urb |-> u, unit |-> <<>>], Idle}
    BY <1>4 DEF Complete
  <2>2. <<session, next_unit>> \in Units
    BY <1>0, <1>4, ScriptTypes, Counts DEF Complete, IoTypes, Units
  <2>3. u \in Urbs /\ u \in 0 .. NumUrbs /\ 0 \in 0 .. NumUrbs
    BY <1>0, Counts DEF UrbTypes, Urbs
  <2>4. UNCHANGED fifo
    BY <1>4 DEF Complete
  <2> QED  BY <1>0, <2>1, <2>2, <2>3, <2>4, SMTT(60) DEF UrbTypes, Idle
<1>5. CASE Callback
  <2>1. cb.urb \in Urbs /\ cb.urb \in 0 .. NumUrbs /\ 0 \in 0 .. NumUrbs
    BY <1>0, <1>5, Counts
       DEF Callback, CbPush, CbQueueWork, CbRetest, CbSubmit, UrbTypes, Idle, Urbs
  <2>2. \/ cb' = Idle
        \/ cb' \in {[at |-> a, urb |-> cb.urb, unit |-> <<>>] : a \in {"queue", "resubmit", "submit"}}
    BY <1>5 DEF Callback, CbPush, CbQueueWork, CbRetest, CbSubmit, CbAt
  <2>3. in_flight' \in {in_flight, in_flight \cup {cb.urb}}
    BY <1>5 DEF Callback, CbPush, CbQueueWork, CbRetest, CbSubmit
  <2>4. fifo' \in Seq(Units) /\ Len(fifo') <= FifoSize
    <3>1. CASE CbPush /\ Len(fifo) < FifoSize
      <4>1. cb.unit \in Units /\ fifo \in Seq(Units) /\ fifo' = Append(fifo, cb.unit)
        BY <1>0, <3>1 DEF CbPush, UrbTypes
      <4>2. Len(fifo) \in Nat /\ Len(fifo') = Len(fifo) + 1 /\ fifo' \in Seq(Units)
        BY <4>1, AppendProperties, LenProperties
      <4> QED  BY <3>1, <4>2, Counts
    <3>2. CASE ~(CbPush /\ Len(fifo) < FifoSize)
      <4>1. UNCHANGED fifo
        BY <1>5, <3>2 DEF Callback, CbPush, CbQueueWork, CbRetest, CbSubmit
      <4> QED  BY <1>0, <4>1 DEF UrbTypes
    <3> QED  BY <3>1, <3>2
  <2> QED  BY <1>0, <2>1, <2>2, <2>3, <2>4 DEF UrbTypes, Idle
<1>6. CASE WorkFetch
  <2>1. PICK n \in Nat : n <= Len(fifo) /\ fifo' = SubSeq(fifo, n + 1, Len(fifo))
    <3> DEFINE room == WorkspaceSize - Len(workspace)
               n == IF Len(fifo) < room THEN Len(fifo) ELSE room
    <3>1. Len(fifo) \in Nat /\ Len(workspace) \in Nat
      BY LenProperties DEF TypeInv, UrbTypes, WorkTypes
    <3>2. n \in Nat /\ n <= Len(fifo)
      BY <3>1, Counts DEF TypeInv, WorkTypes
    <3> QED  BY <1>6, <3>2 DEF WorkFetch
  <2>2. fifo \in Seq(Units) /\ Len(fifo) \in Nat /\ Len(fifo) <= FifoSize
    BY <1>0, LenProperties DEF UrbTypes
  <2>3. fifo' \in Seq(Units) /\ Len(fifo') <= Len(fifo) /\ Len(fifo') \in Nat
    <3>1. n + 1 \in Nat \ {0} /\ Len(fifo) <= Len(fifo)
      BY <2>1, <2>2
    <3> QED  BY <2>1, <2>2, <3>1, Slice
  <2>4. UNCHANGED <<in_flight, cb>>
    BY <1>6 DEF WorkFetch, urbVars
  <2> QED  BY <1>0, <2>2, <2>3, <2>4, Counts DEF UrbTypes
<1>7. \/ UNCHANGED <<in_flight, cb, fifo>> \/ SubmitUrb \/ KillUrb \/ StartReset \/ StopFlush
      \/ Complete \/ Callback \/ WorkFetch
  BY DEF Next, Ioctl, Qbuf, Dqbuf, Streamon, Streamoff, StartStop, StartFailed, StopReturned,
         SetupHardware, StartReady, StartDone, ErrorReady, ErrorDrain, ReturnReady, StopVideo,
         StopReady, StopCancel, Worker, WorkStart, WorkSkip, WorkBoundary, WorkPass,
         WorkPayload, WorkReturn, FinishWork, urbVars, vars
<1> QED  BY <1>1, <1>2, <1>3, <1>4, <1>5, <1>6, <1>7

\* The units at the decoder's cursor.
LEMMA UnitTypes ==
    ASSUME WorkTypes, NEW i \in 1 .. Len(buf)
    PROVE  /\ buf[i] \in Units /\ buf[i][2] \in 1 .. Len(Script)
           /\ Unit(i).frame \in 0 .. 255 /\ Unit(i).part \in Parts
           /\ Unit(i).soi \in BOOLEAN /\ Unit(i).eoi \in BOOLEAN
<1>1. buf[i] \in Units
  BY ElementOfSeq DEF WorkTypes
<1>2. buf[i][2] \in 1 .. Len(Script)
  BY <1>1 DEF Units
<1> QED  BY <1>1, <1>2, ScriptTypes DEF Unit

LEMMA PktUnits ==
    ASSUME WorkTypes, work = "payload"
    PROVE  /\ pkt \in {1, 2} /\ cur + pkt \in 1 .. Len(buf) /\ cur \in Nat
           /\ pktUnits \in Seq(Units) /\ Len(pktUnits) = pkt
           /\ DOMAIN pktUnits = 1 .. pkt
           /\ \A i \in 1 .. pkt : pktUnits[i] = buf[cur + i]
<1>1. /\ buf \in Seq(Units) /\ Len(buf) \in Nat
      /\ pkt \in {1, 2} /\ cur \in Nat /\ cur + pkt \in 1 .. Len(buf)
      /\ cur + 1 \in Nat \ {0} /\ cur + pkt \in Nat /\ cur + pkt <= Len(buf)
      /\ cur + pkt - (cur + 1) + 1 = pkt /\ cur + 1 <= cur + pkt
  BY LenProperties DEF WorkTypes
<1> DEFINE t == SubSeq(buf, cur + 1, cur + pkt)
<1>2. /\ t \in Seq(Units) /\ Len(t) = pkt /\ DOMAIN t = 1 .. pkt
      /\ \A i \in 1 .. pkt : t[i] = buf[cur + 1 + i - 1]
  BY <1>1, Slice
<1>3. \A i \in 1 .. pkt : cur + 1 + i - 1 = cur + i
  BY <1>1
<1> QED  BY <1>1, <1>2, <1>3 DEF pktUnits

\* A packet that ends the image has its end of image in its last unit.
LEMMA PktEois ==
    ASSUME WorkTypes, work = "payload", NEW eoi \in pktEois
    PROVE  eoi \in BOOLEAN /\ (eoi = TRUE => Unit(cur + pkt).eoi)
<1>1. /\ pkt \in {1, 2} /\ cur + pkt \in 1 .. Len(buf)
  BY PktUnits
<1>2. Unit(cur + pkt).eoi \in BOOLEAN
  BY <1>1, UnitTypes
<1>3. eoi = Unit(cur + pkt).eoi \/ eoi = FALSE
  BY <1>1 DEF pktEois
<1> QED  BY <1>2, <1>3

LEMMA FlagsOf ==
    ASSUME NEW b \in BOOLEAN, NEW f \in -1 .. 255, NEW s \in BOOLEAN, NEW e \in BOOLEAN
    PROVE  [building |-> b, frame |-> f, soi |-> s, eof |-> e] \in Flags
  BY Zenon DEF Flags

\* The worker, one transfer at a time.
LEMMA WorkTypesStep == TypeInv /\ [Next]_vars => WorkTypes'
<1> SUFFICES ASSUME TypeInv, [Next]_vars PROVE WorkTypes'
  OBVIOUS
<1>0. WorkTypes /\ UrbTypes
  BY DEF TypeInv
<1>a. /\ workspace \in Seq(Units) /\ buf \in Seq(Units) /\ fifo \in Seq(Units)
      /\ Len(workspace) \in Nat /\ Len(buf) \in Nat /\ Len(fifo) \in Nat
  BY <1>0, LenProperties DEF WorkTypes, UrbTypes
<1>b. <<>> \in Seq(Units) /\ Len(<<>>) = 0
  BY EmptySeq
<1>1. CASE UNCHANGED <<work, workspace, buf, dec, loc, cur, pkt>>
  BY <1>0, <1>1 DEF WorkTypes
<1>2. CASE StartReset \/ StopFlush
  <2>1. UNCHANGED <<work, buf, loc, cur, pkt>> /\ workspace' \in {workspace, <<>>}
    BY <1>2 DEF StartReset, ResetTo, StopFlush, StopReturnBuffers
  <2>2. dec' \in Flags
    <3>1. /\ dec.building \in BOOLEAN /\ dec.frame \in -1 .. 255
          /\ dec.soi \in BOOLEAN /\ dec.eof \in BOOLEAN
      BY <1>0 DEF WorkTypes, Flags
    <3>2. \/ dec' = [building |-> FALSE, frame |-> -1, soi |-> dec.soi, eof |-> dec.eof]
          \/ dec' = [building |-> FALSE, frame |-> dec.frame, soi |-> FALSE, eof |-> FALSE]
      BY <1>2 DEF StartReset, ResetTo, StopFlush, StopReturnBuffers
    <3>3. FALSE \in BOOLEAN /\ -1 \in -1 .. 255
      OBVIOUS
    <3>4. CASE dec' = [building |-> FALSE, frame |-> -1, soi |-> dec.soi, eof |-> dec.eof]
      BY <3>1, <3>3, <3>4, FlagsOf, Zenon
    <3>5. CASE dec' = [building |-> FALSE, frame |-> dec.frame, soi |-> FALSE, eof |-> FALSE]
      BY <3>1, <3>3, <3>5, FlagsOf, Zenon
    <3> QED  BY <3>2, <3>4, <3>5
  <2>3. workspace' \in Seq(Units) /\ Len(workspace') \in Nat /\ Len(workspace') <= Len(workspace)
    <3>1. CASE workspace' = workspace
      BY <1>a, <3>1
    <3>2. CASE workspace' = <<>>
      BY <1>a, <1>b, <3>2
    <3> QED  BY <2>1, <3>1, <3>2
  <2> QED  BY <1>0, <1>a, <2>1, <2>2, <2>3, Counts DEF WorkTypes
<1>3. CASE WorkStart
  BY <1>0, <1>3 DEF WorkStart, WorkTypes
<1>4. CASE WorkFetch
  <2>1. PICK n \in Nat : /\ n <= Len(fifo) /\ Len(workspace) + n <= WorkspaceSize
                         /\ workspace' = workspace \o SubSeq(fifo, 1, n)
    <3> DEFINE room == WorkspaceSize - Len(workspace)
               n == IF Len(fifo) < room THEN Len(fifo) ELSE room
    <3>1. n \in Nat /\ n <= Len(fifo) /\ Len(workspace) + n <= WorkspaceSize
      BY <1>0, <1>a, Counts DEF WorkTypes
    <3> QED  BY <1>4, <3>1 DEF WorkFetch
  <2>2. SubSeq(fifo, 1, n) \in Seq(Units) /\ Len(SubSeq(fifo, 1, n)) = n
    BY <1>a, <2>1, Slice
  <2>3. workspace' \in Seq(Units) /\ Len(workspace') = Len(workspace) + n
    BY <1>a, <2>1, <2>2, ConcatProperties
  <2>4. /\ work = "fetch" /\ buf' = workspace' /\ UNCHANGED <<dec, cur, pkt>>
        /\ work' = IF workspace' = <<>> THEN "idle" ELSE "decode"
        /\ loc' \in {loc, dec}
    BY <1>4 DEF WorkFetch
  <2>5. cur = 0 /\ 0 \in 0 .. Len(buf')
    BY <1>0, <1>a, <2>1, <2>3, <2>4 DEF WorkTypes
  <2>6. work' = "idle" => Len(workspace') = 0
    BY <1>b, <2>4
  <2>7. /\ Len(workspace') \in Nat /\ Len(workspace') <= WorkspaceSize
        /\ Len(workspace') <= Len(buf')
        /\ work' \in {"idle", "decode"} /\ dec' \in Flags /\ loc' \in Flags
        /\ pkt' \in 0 .. 2
    <3>1. dec \in Flags /\ loc \in Flags /\ pkt \in 0 .. 2
      BY <1>0 DEF WorkTypes
    <3>2. Len(workspace') \in Nat /\ Len(workspace') <= WorkspaceSize
      BY <1>a, <2>1, <2>3
    <3> QED  BY <2>4, <3>1, <3>2
  <2> QED  BY <2>3, <2>4, <2>5, <2>6, <2>7 DEF WorkTypes
<1>5. CASE WorkSkip
  <2>1. cur' = cur + 1 /\ cur < Len(buf) /\ work = "decode"
        /\ UNCHANGED <<work, workspace, buf, dec, loc, pkt>>
    BY <1>5 DEF WorkSkip, InDecode
  <2> QED  BY <1>0, <1>a, <2>1 DEF WorkTypes
<1>6. CASE WorkBoundary
  <2>1. /\ work = "decode" /\ cur < Len(buf) /\ cur \in Nat
        /\ \/ pkt' = 1
           \/ pkt' = 2 /\ cur + 2 <= Len(buf)
    BY <1>0, <1>6 DEF WorkBoundary, PacketHere, InDecode, WorkTypes
  <2>2. cur + 1 \in 1 .. Len(buf)
    BY <1>a, <2>1
  <2>3. loc' \in Flags
    <3>1. loc \in Flags /\ Unit(cur + 1).frame \in 0 .. 255
      BY <1>0, <2>2, UnitTypes DEF WorkTypes
    <3>2. \/ UNCHANGED loc
          \/ loc' = [building |-> TRUE, frame |-> Unit(cur + 1).frame, soi |-> FALSE, eof |-> FALSE]
      BY <1>6 DEF WorkBoundary
    <3>3. TRUE \in BOOLEAN /\ FALSE \in BOOLEAN /\ Unit(cur + 1).frame \in -1 .. 255
      BY <3>1
    <3>4. CASE loc' = [building |-> TRUE, frame |-> Unit(cur + 1).frame, soi |-> FALSE,
                       eof |-> FALSE]
      BY <3>3, <3>4, FlagsOf, Zenon
    <3> QED  BY <3>1, <3>2, <3>4
  <2>4. work' = "payload" /\ UNCHANGED <<workspace, buf, dec, cur>>
    BY <1>6 DEF WorkBoundary
  <2> QED  BY <1>0, <1>a, <2>1, <2>3, <2>4 DEF WorkTypes
<1>7. CASE WorkPass \/ WorkPayload
  <2>1. /\ work = "payload" /\ work' = "decode" /\ cur' = cur + pkt
        /\ UNCHANGED <<workspace, buf, dec, pkt>>
    BY <1>7 DEF WorkPass, WorkPayload
  <2>2. loc' \in Flags
    <3>1. CASE WorkPass
      BY <1>0, <3>1 DEF WorkPass, WorkTypes
    <3>2. CASE WorkPayload
      <4>1. PICK eoi \in pktEois : loc' = [building |-> loc.building, frame |-> loc.frame,
                                           soi |-> TRUE, eof |-> eoi]
        BY <3>2 DEF WorkPayload
      <4>2. eoi \in BOOLEAN
        BY <1>0, <2>1, PktEois
      <4> QED  BY <1>0, <4>1, <4>2 DEF WorkTypes, Flags
    <3> QED  BY <1>7, <3>1, <3>2
  <2>3. cur + pkt \in 0 .. Len(buf)
    BY <1>0, <2>1, PktUnits
  <2> QED  BY <1>0, <2>1, <2>2, <2>3 DEF WorkTypes
<1>8. CASE WorkReturn
  <2>1. /\ work = "decode" /\ work' = "idle" /\ dec' = loc /\ loc' = FreshDec
        /\ workspace' = SubSeq(workspace, cur + 1, Len(workspace))
        /\ buf' = <<>> /\ cur' = 0 /\ pkt' = 0
        /\ cur = Len(buf) \/ cur + 1 = Len(buf)
    BY <1>8 DEF WorkReturn, FinishWork
  <2>2. cur \in Nat /\ Len(workspace) <= Len(buf) /\ Len(workspace) <= WorkspaceSize
    BY <1>0, <2>1 DEF WorkTypes
  <2>3. cur + 1 \in Nat \ {0} /\ Len(workspace) <= Len(workspace)
    BY <1>a, <2>2
  <2>4. /\ workspace' \in Seq(Units)
        /\ Len(workspace') = IF cur + 1 <= Len(workspace)
                               THEN Len(workspace) - (cur + 1) + 1 ELSE 0
    BY <1>a, <2>1, <2>3, Slice
  <2>5. Len(workspace') <= 1 /\ Len(workspace') <= WorkspaceSize
    BY <1>a, <2>1, <2>2, <2>4, Counts
  <2>6. FreshDec \in Flags
    BY DEF FreshDec, Flags
  <2> QED  BY <1>0, <1>b, <2>1, <2>4, <2>5, <2>6 DEF WorkTypes
<1>9. \/ UNCHANGED <<work, workspace, buf, dec, loc, cur, pkt>>
      \/ StartReset \/ StopFlush \/ Worker
  BY DEF Next, Ioctl, Qbuf, Dqbuf, Streamon, Streamoff, StartStop, StartFailed, StopReturned,
         SetupHardware, StartReady, SubmitUrb, StartDone, ErrorReady, ErrorDrain, ReturnReady,
         KillUrb, StopVideo, StopReady, StopCancel, Complete, Callback, CbPush, CbQueueWork,
         CbRetest, CbSubmit, workVars, vars
<1> QED
  BY <1>1, <1>2, <1>3, <1>4, <1>5, <1>6, <1>7, <1>8, <1>9 DEF Worker

\* The buffers and their queues.
LEMMA BufTypesStep == TypeInv /\ [Next]_vars => BufTypes'
<1> SUFFICES ASSUME TypeInv, [Next]_vars PROVE BufTypes'
  OBVIOUS
<1> DEFINE States == {"user", "queued", "active", "done"}
           Contents == [ok : BOOLEAN, units : Seq(Units)]
<1>0. BufTypes /\ WorkTypes
  BY DEF TypeInv
<1>a. <<>> \in Seq(Buffers) /\ <<>> \in Seq(Units) /\ Len(<<>>) = 0
  BY EmptySeq
<1>b. NoFrame \in Contents
  BY <1>a DEF NoFrame
<1>c. /\ queued_list \in Seq(Buffers) /\ ready_queue \in Seq(Buffers)
      /\ buf_state \in [Buffers -> States] /\ frames \in [Buffers -> Contents]
      /\ active_buf \in Buffers \cup {None}
      /\ payload \in Seq(Units) /\ Len(payload) <= FrameSize /\ Len(payload) \in Nat
  BY <1>0, LenProperties DEF BufTypes
<1>1. CASE UNCHANGED <<queued_list, bufVars>>
  BY <1>0, <1>1 DEF BufTypes, bufVars
<1>2. ASSUME NEW b \in Buffers, Qbuf(b) PROVE BufTypes'
  <2>1. /\ queued_list' \in Seq(Buffers)
        /\ ready_queue' \in {ready_queue, Append(ready_queue, b)}
        /\ buf_state' \in [Buffers -> States]
        /\ UNCHANGED <<frames, active_buf, payload>>
    BY <1>c, <1>2, AppendProperties DEF Qbuf
  <2>2. ready_queue' \in Seq(Buffers)
    <3>1. Append(ready_queue, b) \in Seq(Buffers)
      BY <1>c, AppendProperties
    <3>2. CASE ready_queue' = ready_queue
      BY <1>c, <3>2
    <3>3. CASE ready_queue' = Append(ready_queue, b)
      BY <3>1, <3>3
    <3> QED  BY <2>1, <3>2, <3>3
  <2> QED  BY <1>c, <2>1, <2>2 DEF BufTypes
<1>3. ASSUME NEW b \in Buffers, Dqbuf(b) PROVE BufTypes'
  <2>1. PICK i \in DOMAIN queued_list : queued_list' = RemoveAt(queued_list, i)
    BY <1>3 DEF Dqbuf
  <2>2. /\ Len(queued_list) \in Nat /\ i \in 1 .. Len(queued_list)
        /\ i - 1 \in Nat /\ i - 1 <= Len(queued_list) /\ i + 1 \in Nat \ {0}
        /\ 1 \in Nat \ {0}
    BY <1>c, LenProperties, SMTT(60)
  <2>3. /\ SubSeq(queued_list, 1, i - 1) \in Seq(Buffers)
        /\ SubSeq(queued_list, i + 1, Len(queued_list)) \in Seq(Buffers)
    BY <1>c, <2>2, Slice, SMTT(60)
  <2>4. queued_list' \in Seq(Buffers)
    BY <2>1, <2>3, ConcatProperties DEF RemoveAt
  <2>5. /\ buf_state' \in [Buffers -> States] /\ frames' \in [Buffers -> Contents]
        /\ UNCHANGED <<ready_queue, active_buf, payload>>
    BY <1>b, <1>c, <1>3 DEF Dqbuf
  <2> QED  BY <1>c, <2>4, <2>5 DEF BufTypes
<1>4. CASE Streamon
  <2>1. ready_queue' \in Seq(Buffers)
    BY <1>c, <1>4, ConcatProperties DEF Streamon
  <2>2. buf_state' \in [Buffers -> States]
    BY <1>c, <1>4 DEF Streamon
  <2>3. UNCHANGED <<queued_list, frames, active_buf, payload>>
    BY <1>4 DEF Streamon, vbVars
  <2> QED  BY <1>c, <2>1, <2>2, <2>3 DEF BufTypes
<1>5. CASE StartFailed \/ StopReturned
  <2>1. /\ buf_state' \in [Buffers -> States] /\ frames' \in [Buffers -> Contents]
        /\ queued_list' \in {queued_list, <<>>}
        /\ UNCHANGED <<ready_queue, active_buf, payload>>
    BY <1>b, <1>c, <1>5 DEF StartFailed, StopReturned, vbVars
  <2> QED  BY <1>a, <1>c, <2>1 DEF BufTypes
<1>6. CASE StartReset
  <2>1. /\ active_buf' = None /\ payload' = <<>>
        /\ UNCHANGED <<queued_list, buf_state, frames, ready_queue>>
    BY <1>6 DEF StartReset, ResetTo, vbVars
  <2> QED  BY <1>a, <1>c, <2>1, Counts DEF BufTypes
<1>7. CASE ErrorDrain \/ StopFlush
  <2>1. /\ buf_state' \in [Buffers -> States]
        /\ ready_queue' = <<>> /\ active_buf' \in {active_buf, None}
        /\ payload' \in {payload, <<>>}
        /\ UNCHANGED <<queued_list, frames>>
    BY <1>c, <1>7 DEF ErrorDrain, ReturnReady, StopFlush, StopReturnBuffers, vbVars
  <2>2. payload' \in Seq(Units) /\ Len(payload') <= FrameSize
    <3>1. CASE payload' = payload
      BY <1>c, <3>1
    <3>2. CASE payload' = <<>>
      BY <1>a, <3>2, Counts
    <3> QED  BY <2>1, <3>1, <3>2
  <2>3. active_buf' \in Buffers \cup {None}
    BY <1>c, <2>1
  <2>4. ready_queue' \in Seq(Buffers)
    BY <1>a, <2>1
  <2> QED  BY <1>c, <2>1, <2>2, <2>3, <2>4 DEF BufTypes
<1> DEFINE freed == IF active_buf = None THEN buf_state ELSE DoneState(active_buf)
<1>8. freed \in [Buffers -> States]
  BY <1>c DEF DoneState
<1>9. ASSUME NEW f \in Contents, NEW b PROVE DoneFrame(b, f) \in [Buffers -> Contents]
  BY <1>c, <1>9 DEF DoneFrame
<1>10. CASE WorkBoundary
  <2>1. CASE NewFrame
    <3>1. buf_state' = freed /\ frames' \in {frames, DoneFrame(active_buf, NoFrame)}
          /\ payload' = <<>> /\ TakeReady /\ UNCHANGED queued_list
      BY <1>10, <2>1 DEF WorkBoundary, StartFrame, vbVars
    <3>2. active_buf' \in Buffers \cup {None} /\ ready_queue' \in Seq(Buffers)
      <4>1. CASE ready_queue # <<>>
        <5>1. Head(ready_queue) \in Buffers /\ Tail(ready_queue) \in Seq(Buffers)
          BY <1>c, <4>1, HeadTailProperties
        <5> QED  BY <3>1, <4>1, <5>1 DEF TakeReady
      <4>2. CASE ready_queue = <<>>
        BY <1>c, <3>1, <4>2 DEF TakeReady
      <4> QED  BY <4>1, <4>2
    <3>3. frames' \in [Buffers -> Contents]
      BY <1>b, <1>c, <1>9, <3>1
    <3> HIDE DEF freed
    <3> QED  BY <1>a, <1>c, <1>8, <3>1, <3>2, <3>3, Counts DEF BufTypes
  <2>2. CASE ~NewFrame
    BY <1>1, <1>10, <2>2 DEF WorkBoundary, vbVars
  <2> QED  BY <2>1, <2>2
<1>11. CASE WorkPayload
  <2>1. /\ work = "payload" /\ UNCHANGED <<ready_queue, queued_list>>
        /\ buf_state' \in {buf_state, DoneState(active_buf)}
        /\ active_buf' \in {active_buf, None}
        /\ frames' \in {frames, DoneFrame(active_buf, NoFrame),
                        DoneFrame(active_buf, [ok |-> TRUE, units |-> payload \o pktUnits])}
        /\ \/ payload' \in {payload, <<>>}
           \/ payload' = payload \o pktUnits /\ Len(payload) + pkt <= FrameSize
    BY <1>11 DEF WorkPayload, vbVars
  <2>2. pktUnits \in Seq(Units) /\ Len(pktUnits) = pkt
    BY <1>0, <2>1, PktUnits
  <2>3. payload \o pktUnits \in Seq(Units) /\ Len(payload \o pktUnits) = Len(payload) + pkt
    BY <1>c, <2>2, ConcatProperties
  <2>4. [ok |-> TRUE, units |-> payload \o pktUnits] \in Contents
    BY <2>3
  <2>5. frames' \in [Buffers -> Contents]
    <3>1. DoneFrame(active_buf, NoFrame) \in [Buffers -> Contents]
      BY <1>b, <1>9
    <3>2. DoneFrame(active_buf, [ok |-> TRUE, units |-> payload \o pktUnits])
            \in [Buffers -> Contents]
      BY <1>9, <2>4
    <3> QED  BY <1>c, <2>1, <3>1, <3>2
  <2>6. buf_state' \in [Buffers -> States]
    <3>1. DoneState(active_buf) \in [Buffers -> States]
      BY <1>c DEF DoneState
    <3> QED  BY <1>c, <2>1, <3>1
  <2>7. payload' \in Seq(Units) /\ Len(payload') <= FrameSize
    <3>1. CASE payload' = payload
      BY <1>c, <3>1
    <3>2. CASE payload' = <<>>
      BY <1>a, <3>2, Counts
    <3>3. CASE payload' = payload \o pktUnits /\ Len(payload) + pkt <= FrameSize
      BY <2>3, <3>3
    <3> QED  BY <2>1, <3>1, <3>2, <3>3
  <2> QED  BY <1>c, <2>1, <2>5, <2>6, <2>7 DEF BufTypes
<1>12. \/ UNCHANGED <<queued_list, bufVars>> \/ (\E b \in Buffers : Qbuf(b) \/ Dqbuf(b))
       \/ Streamon \/ StartFailed \/ StopReturned \/ StartReset \/ ErrorDrain \/ StopFlush
       \/ WorkBoundary \/ WorkPayload
  BY DEF Next, Ioctl, Streamoff, StartStop, SetupHardware, StartReady, SubmitUrb, StartDone,
         ErrorReady, KillUrb, StopVideo, StopReady, StopCancel, Complete, Callback, CbPush,
         CbQueueWork, CbRetest, CbSubmit, Worker, WorkStart, WorkFetch, WorkSkip, WorkPass,
         WorkReturn, FinishWork, vbVars, bufVars, vars
<1> QED
  BY <1>1, <1>2, <1>3, <1>4, <1>5, <1>6, <1>7, <1>10, <1>11, <1>12

LEMMA TypeInvStep == TypeInv /\ [Next]_vars => TypeInv'
  BY BoolTypesStep, IoTypesStep, UrbTypesStep, WorkTypesStep, BufTypesStep DEF TypeInv

\* Every variable keeps its type, and the kfifo, the workspace and the buffer being filled
\* never hold more than their size, for any script and sizes, whether or not submissions
\* fail.
THEOREM StreamTypeCorrect == Spec => []TypeOK
<1>1. TypeInv => TypeOK
  <2> SUFFICES ASSUME TypeInv PROVE TypeOK
    OBVIOUS
  <2>1. {hw_active, client_ready, streaming, camera, pending} \subseteq BOOLEAN
    BY Zenon DEF TypeInv, BoolTypes
  <2>2. {workspace, buf} \subseteq Seq(Units)
    BY DEF TypeInv, WorkTypes
  <2> HIDE DEF TypeInv
  <2>3. IoTypes /\ BufTypes /\ UrbTypes /\ WorkTypes
    BY DEF TypeInv
  <2> QED  BY <2>1, <2>2, <2>3, Zenon DEF TypeOK, IoTypes, BufTypes, UrbTypes, WorkTypes
<1> QED  BY <1>1, InitTypeInv, TypeInvStep, PTL DEF Spec

\* The workspace has room for all there is in the kfifo.
LEMMA FetchTakesAll ==
    ASSUME TypeInv, WorkFetch
    PROVE  fifo' = <<>> /\ workspace' = workspace \o fifo /\ cur = 0
<1>1. /\ fifo \in Seq(Units) /\ Len(fifo) \in Nat /\ Len(fifo) <= FifoSize
      /\ Len(workspace) \in Nat /\ Len(workspace) <= 1 /\ cur = 0
  BY LenProperties DEF WorkFetch, TypeInv, UrbTypes, WorkTypes
<1>2. Len(fifo) <= WorkspaceSize - Len(workspace)
  BY <1>1, Counts
<1>3. (IF Len(fifo) < WorkspaceSize - Len(workspace)
         THEN Len(fifo) ELSE WorkspaceSize - Len(workspace)) = Len(fifo)
  BY <1>1, <1>2, Counts
<1>4. /\ fifo' = SubSeq(fifo, Len(fifo) + 1, Len(fifo))
      /\ workspace' = workspace \o SubSeq(fifo, 1, Len(fifo))
  BY <1>3 DEF WorkFetch
<1> QED  BY <1>1, <1>4, SubSeqEmpty, SubSeqFull

\* Whoever adds to the kfifo is about to queue the work, or has; the worker clears the
\* mark before it takes all there is.
BacklogInv ==
    fifo # <<>> => pending \/ work = "fetch" \/ cb.at = "queue" \/ io = "stopFlush"

LEMMA BacklogStep == TypeInv /\ BacklogInv /\ [Next]_vars => BacklogInv'
<1> SUFFICES ASSUME TypeInv, BacklogInv, [Next]_vars PROVE BacklogInv'
  OBVIOUS
<1>1. CASE Ioctl
  BY <1>1 DEF BacklogInv, Ioctl, Qbuf, Dqbuf, Streamon, Streamoff, ioVars, urbVars, workVars
<1>2. CASE StartStop
  <2>1. CASE StartReset \/ StopFlush
    BY <2>1 DEF BacklogInv, StartReset, ResetTo, StopFlush, StopReturnBuffers
  <2>2. CASE StopCancel
    BY <2>2 DEF BacklogInv, StopCancel, Io
  <2>3. CASE \/ StartFailed \/ StopReturned \/ SetupHardware \/ StartReady \/ SubmitUrb
             \/ StartDone \/ ErrorReady \/ ErrorDrain \/ KillUrb \/ StopVideo \/ StopReady
    <3>1. io # "stopFlush" /\ UNCHANGED <<cb, fifo, pending, work>>
      BY <2>3 DEF StartFailed, StopReturned, SetupHardware, StartReady, SubmitUrb, StartDone,
                  ErrorReady, ErrorDrain, ReturnReady, KillUrb, StopVideo, StopReady, Io,
                  urbVars, workVars
    <3> QED  BY <3>1 DEF BacklogInv
  <2> QED  BY <1>2, <2>1, <2>2, <2>3 DEF StartStop
<1>3. CASE Complete
  <2>1. cb.at = "idle" /\ UNCHANGED <<io, fifo, pending, work>>
    BY <1>3 DEF Complete, Idle, ioVars, workVars
  <2> QED  BY <2>1 DEF BacklogInv
<1>4. CASE Callback
  <2>1. CASE CbPush \/ CbQueueWork
    BY <2>1 DEF BacklogInv, CbPush, CbQueueWork, CbAt
  <2>2. CASE CbRetest \/ CbSubmit
    <3>1. cb.at # "queue" /\ UNCHANGED <<io, fifo, pending, work>>
      BY <2>2 DEF CbRetest, CbSubmit, ioVars, workVars
    <3> QED  BY <3>1 DEF BacklogInv
  <2> QED  BY <1>4, <2>1, <2>2 DEF Callback
<1>5. CASE Worker
  <2>1. CASE WorkStart
    BY <2>1 DEF BacklogInv, WorkStart
  <2>2. CASE WorkFetch
    BY <2>2, FetchTakesAll DEF BacklogInv
  <2>3. CASE WorkSkip \/ WorkBoundary \/ WorkPass \/ WorkPayload \/ WorkReturn
    <3>1. work # "fetch" /\ UNCHANGED <<io, cb, fifo, pending>>
      BY <2>3 DEF WorkSkip, WorkBoundary, PacketHere, InDecode, WorkPass, WorkPayload,
                  WorkReturn, FinishWork, ioVars, urbVars
    <3> QED  BY <3>1 DEF BacklogInv
  <2> QED  BY <1>5, <2>1, <2>2, <2>3 DEF Worker
<1>6. CASE UNCHANGED vars
  BY <1>6 DEF BacklogInv, vars, ioVars, urbVars, workVars
<1> QED  BY <1>1, <1>2, <1>3, <1>4, <1>5, <1>6 DEF Next

\* Data in the kfifo of a running stream has a worker coming for it, for any sizes of the
\* kfifo and a workspace that is larger, whether or not submissions fail.
THEOREM WorkIsComing == Spec => []NoLostWork
<1>1. Init => BacklogInv
  BY DEF Init, BacklogInv
<1>2. BacklogInv => NoLostWork
  BY DEF BacklogInv, NoLostWork
<1> QED  BY <1>1, <1>2, InitTypeInv, TypeInvStep, BacklogStep, PTL DEF Spec

(***************************************************************************)
(* Why the calls, the handlers and the worker come to an end: what each    *)
(* has still to do is a number that its own steps make smaller and nobody  *)
(* else's make larger.                                                     *)
(***************************************************************************)
\* Of STREAMON and STREAMOFF: the calls ahead, one for each URB to submit or to kill.
CallLeft ==
    CASE io = "idle" -> 0
      [] io \in {"failed", "stopped"} -> 1
      [] io = "errorKill" -> NumUrbs + 3 - kill
      [] io = "error" -> NumUrbs + 3
      [] io = "submit" -> 2 * NumUrbs + 4 - urb_sub
      [] io = "ready" -> 2 * NumUrbs + 5
      [] io = "setup" -> 2 * NumUrbs + 6
      [] io = "start" -> 2 * NumUrbs + 7
      [] io = "stopFlush" -> 2
      [] io = "stopKill" -> NumUrbs + 4 - kill
      [] io = "stopReady" -> NumUrbs + 4
      [] io = "stop" -> NumUrbs + 5

\* Of up_read_bulk_callback.
HandlerLeft ==
    CASE cb.at = "idle" -> 0
      [] cb.at = "submit" -> 1
      [] cb.at = "resubmit" -> 2
      [] cb.at = "queue" -> 3
      [] cb.at = "push" -> 4

\* Of a run of up_work_handler: twice the buffer, which is taken from the kfifo once.
WorkLeft ==
    CASE work = "idle" -> 0
      [] work = "fetch" -> 2 * WorkspaceSize + 2
      [] work = "decode" -> 2 * (Len(buf) - cur) + 1
      [] work = "payload" -> 2 * (Len(buf) - cur)

LEMMA CallTurn ==
    ASSUME TypeInv, [Next]_vars
    PROVE  /\ CallLeft \in Nat
           /\ StartStop => CallLeft' < CallLeft
           /\ io # "idle" /\ ~StartStop => CallLeft' = CallLeft
<1>0. IoTypes /\ NumUrbs \in Nat
  BY Counts DEF TypeInv
<1>1. CallLeft \in Nat
  <2>1. /\ NumUrbs + 3 - kill \in Nat /\ NumUrbs + 4 - kill \in Nat
        /\ 2 * NumUrbs + 4 - urb_sub \in Nat
        /\ \A n \in 3 .. 7 : NumUrbs + n \in Nat /\ 2 * NumUrbs + n \in Nat
    BY <1>0 DEF IoTypes
  <2>2. CASE io \in {"idle", "failed", "stopped", "stopFlush", "errorKill", "stopKill"}
    BY <2>1, <2>2 DEF CallLeft
  <2>3. CASE io \in {"error", "stopReady", "stop"}
    BY <2>1, <2>3 DEF CallLeft
  <2>4. CASE io \in {"submit", "ready", "setup", "start"}
    BY <2>1, <2>4 DEF CallLeft
  <2> QED  BY <1>0, <2>2, <2>3, <2>4 DEF IoTypes
<1>2. ASSUME StartStop PROVE CallLeft' < CallLeft
  <2>1. CASE StartFailed \/ StopReturned
    BY <1>0, <2>1 DEF StartFailed, StopReturned, CallLeft
  <2>2. CASE StartReset \/ SetupHardware \/ StartReady
    <3>1. \/ io = "start" /\ io' = "setup"
          \/ io = "setup" /\ io' \in {"ready", "error"}
          \/ io = "ready" /\ io' = "submit" /\ urb_sub' = 0
      BY <2>2 DEF StartReset, ResetTo, SetupHardware, StartReady, Io
    <3> QED  BY <1>0, <3>1 DEF CallLeft
  <2>3. CASE SubmitUrb
    <3>1. /\ io = "submit"
          /\ \/ io' = "submit" /\ urb_sub' = urb_sub + 1
             \/ io' = "error" /\ urb_sub < NumUrbs
      BY <2>3 DEF SubmitUrb
    <3>2. urb_sub \in 0 .. NumUrbs
      BY <1>0 DEF IoTypes
    <3> QED  BY <1>0, <3>1, <3>2 DEF CallLeft
  <2>4. CASE StartDone
    <3>1. io = "submit" /\ io' = "idle" /\ urb_sub \in 0 .. NumUrbs
      BY <1>0, <2>4 DEF StartDone, Io, IoTypes
    <3> QED  BY <1>0, <3>1 DEF CallLeft
  <2>5. CASE ErrorReady \/ ErrorDrain
    <3>1. \/ io = "error" /\ io' = "errorKill" /\ kill' = 1
          \/ io = "errorKill" /\ io' = "failed"
      BY <2>5 DEF ErrorReady, ErrorDrain, ReturnReady, Io
    <3>2. kill \in 0 .. NumUrbs + 1
      BY <1>0 DEF IoTypes
    <3> QED  BY <1>0, <3>1, <3>2 DEF CallLeft
  <2>6. CASE KillUrb
    <3>1. io \in {"stopKill", "errorKill"} /\ io' = io /\ kill' = kill + 1
      BY <2>6 DEF KillUrb
    <3>2. kill \in 0 .. NumUrbs + 1
      BY <1>0 DEF IoTypes
    <3> QED  BY <1>0, <3>1, <3>2 DEF CallLeft
  <2>7. CASE StopVideo \/ StopReady
    <3>1. \/ io = "stop" /\ io' = "stopReady"
          \/ io = "stopReady" /\ io' = "stopKill" /\ kill' = 1
      BY <2>7 DEF StopVideo, StopReady, Io
    <3> QED  BY <1>0, <3>1 DEF CallLeft
  <2>8. CASE StopCancel \/ StopFlush
    <3>1. \/ io = "stopKill" /\ io' = "stopFlush"
          \/ io = "stopFlush" /\ io' = "stopped"
      BY <2>8 DEF StopCancel, StopFlush, Io
    <3>2. kill \in 0 .. NumUrbs + 1
      BY <1>0 DEF IoTypes
    <3> QED  BY <1>0, <3>1, <3>2 DEF CallLeft
  <2> QED  BY <1>2, <2>1, <2>2, <2>3, <2>4, <2>5, <2>6, <2>7, <2>8 DEF StartStop
<1>3. ASSUME io # "idle", ~StartStop PROVE CallLeft' = CallLeft
  <2>1. UNCHANGED <<io, urb_sub, kill>>
    BY <1>3 DEF Next, Ioctl, Qbuf, Dqbuf, Streamon, Streamoff, Complete, Callback, CbPush,
       CbQueueWork, CbRetest, CbSubmit, Worker, WorkStart, WorkFetch, WorkSkip, WorkBoundary,
       WorkPass, WorkPayload, WorkReturn, FinishWork, ioVars, vars
  <2> QED  BY <2>1 DEF CallLeft
<1> QED  BY <1>1, <1>2, <1>3

LEMMA HandlerTurn ==
    ASSUME TypeInv, [Next]_vars
    PROVE  /\ HandlerLeft \in Nat
           /\ Callback => HandlerLeft' < HandlerLeft
           /\ cb # Idle /\ ~Callback => HandlerLeft' = HandlerLeft
<1>1. HandlerLeft \in Nat
  BY DEF TypeInv, UrbTypes, HandlerLeft
<1>2. ASSUME Callback PROVE HandlerLeft' < HandlerLeft
  <2>1. CASE CbPush
    BY <2>1 DEF CbPush, CbAt, HandlerLeft
  <2>2. CASE CbQueueWork
    BY <2>2 DEF CbQueueWork, CbAt, HandlerLeft
  <2>3. CASE CbRetest
    BY <2>3 DEF CbRetest, CbAt, Idle, HandlerLeft
  <2>4. CASE CbSubmit
    BY <2>4 DEF CbSubmit, Idle, HandlerLeft
  <2> QED  BY <1>2, <2>1, <2>2, <2>3, <2>4 DEF Callback
<1>3. ASSUME cb # Idle, ~Callback PROVE HandlerLeft' = HandlerLeft
  <2>1. cb' = cb
    <3>1. CASE Ioctl \/ Worker \/ Complete \/ UNCHANGED vars
      BY <1>3, <3>1 DEF Ioctl, Qbuf, Dqbuf, Streamon, Streamoff, Complete, Worker, WorkStart,
         WorkFetch, WorkSkip, WorkBoundary, WorkPass, WorkPayload, WorkReturn, FinishWork,
         urbVars, vars
    <3>2. CASE StartStop
      BY <3>2 DEF StartStop, StartFailed, StopReturned, StartReset, ResetTo, SetupHardware,
         StartReady, SubmitUrb, StartDone, ErrorReady, ErrorDrain, ReturnReady, KillUrb,
         StopVideo, StopReady, StopCancel, StopFlush, StopReturnBuffers, urbVars
    <3> QED  BY <1>3, <3>1, <3>2 DEF Next
  <2> QED  BY <2>1 DEF HandlerLeft
<1> QED  BY <1>1, <1>2, <1>3

LEMMA WorkTurn ==
    ASSUME TypeInv, TypeInv', [Next]_vars
    PROVE  /\ WorkLeft \in Nat
           /\ work # "idle" /\ Worker => WorkLeft' < WorkLeft
           /\ ~Worker => WorkLeft' = WorkLeft
<1>0. /\ WorkTypes /\ WorkTypes' /\ WorkspaceSize \in Nat
      /\ Len(buf) \in Nat /\ Len(workspace') \in Nat
      /\ cur \in 0 .. Len(buf)
  <2>1. buf \in Seq(Units) /\ workspace' \in Seq(Units) /\ cur \in 0 .. Len(buf)
    BY DEF TypeInv, WorkTypes
  <2> QED  BY <2>1, Counts, LenProperties DEF TypeInv
<1>1. WorkLeft \in Nat
  BY <1>0 DEF WorkLeft, WorkTypes
<1>2. ASSUME work # "idle", Worker PROVE WorkLeft' < WorkLeft
  <2>1. CASE WorkFetch
    <3>1. /\ work = "fetch" /\ work' \in {"idle", "decode"} /\ buf' = workspace'
          /\ cur' = 0 /\ Len(workspace') <= WorkspaceSize
      BY <1>0, <2>1 DEF WorkFetch, WorkTypes
    <3> QED  BY <1>0, <3>1 DEF WorkLeft
  <2>2. CASE WorkSkip
    BY <1>0, <2>2 DEF WorkSkip, InDecode, WorkLeft
  <2>3. CASE WorkBoundary
    BY <1>0, <2>3 DEF WorkBoundary, PacketHere, InDecode, WorkLeft
  <2>4. CASE WorkPass \/ WorkPayload
    <3>1. work = "payload" /\ work' = "decode" /\ cur' = cur + pkt /\ buf' = buf
      BY <2>4 DEF WorkPass, WorkPayload
    <3>2. pkt \in 1 .. 2
      BY <1>0, <3>1 DEF WorkTypes
    <3> QED  BY <1>0, <3>1, <3>2 DEF WorkLeft
  <2>5. CASE WorkReturn
    BY <1>0, <2>5 DEF WorkReturn, FinishWork, WorkLeft
  <2>6. ~WorkStart
    BY <1>2 DEF WorkStart
  <2> QED  BY <1>2, <2>1, <2>2, <2>3, <2>4, <2>5, <2>6 DEF Worker
<1>3. ASSUME ~Worker PROVE WorkLeft' = WorkLeft
  <2>1. UNCHANGED <<work, buf, cur>>
    <3>1. CASE Ioctl \/ Complete \/ Callback \/ UNCHANGED vars
      BY <3>1 DEF Ioctl, Qbuf, Dqbuf, Streamon, Streamoff, Complete, Callback, CbPush,
         CbQueueWork, CbRetest, CbSubmit, workVars, vars
    <3>2. CASE StartStop
      BY <3>2 DEF StartStop, StartFailed, StopReturned, StartReset, ResetTo, SetupHardware,
         StartReady, SubmitUrb, StartDone, ErrorReady, ErrorDrain, ReturnReady, KillUrb,
         StopVideo, StopReady, StopCancel, StopFlush, StopReturnBuffers, workVars
    <3> QED  BY <1>3, <3>1, <3>2 DEF Next
  <2> QED  BY <2>1 DEF WorkLeft
<1> QED  BY <1>1, <1>2, <1>3

\* STREAMON, STREAMOFF, a completion handler and a run of the worker each take a bounded
\* number of steps, whatever the others do meanwhile and whether or not submissions fail: no
\* loop of the driver can be kept going by data that keeps coming.  (That a thread which waits
\* for another is let go again is fairness, and CallsReturn.)
THEOREM ActivitiesRunOut ==
    Spec => [][ /\ {CallLeft, HandlerLeft, WorkLeft} \subseteq Nat
                /\ StartStop => CallLeft' < CallLeft
                /\ io # "idle" /\ ~StartStop => CallLeft' = CallLeft
                /\ Callback => HandlerLeft' < HandlerLeft
                /\ cb # Idle /\ ~Callback => HandlerLeft' = HandlerLeft
                /\ work # "idle" /\ Worker => WorkLeft' < WorkLeft
                /\ ~Worker => WorkLeft' = WorkLeft ]_vars
<1> DEFINE RunsOut == /\ {CallLeft, HandlerLeft, WorkLeft} \subseteq Nat
                      /\ StartStop => CallLeft' < CallLeft
                      /\ io # "idle" /\ ~StartStop => CallLeft' = CallLeft
                      /\ Callback => HandlerLeft' < HandlerLeft
                      /\ cb # Idle /\ ~Callback => HandlerLeft' = HandlerLeft
                      /\ work # "idle" /\ Worker => WorkLeft' < WorkLeft
                      /\ ~Worker => WorkLeft' = WorkLeft
<1>1. TypeInv /\ [Next]_vars => RunsOut
  BY TypeInvStep, CallTurn, HandlerTurn, WorkTurn, Zenon
<1> HIDE DEF RunsOut
<1>2. Spec => [][RunsOut]_vars
  BY <1>1, InitTypeInv, TypeInvStep, PTL DEF Spec
<1> QED  BY <1>2 DEF RunsOut

-----------------------------------------------------------------------------
(***************************************************************************)
(* What a frame holds.  The units of the camera's stream lie, oldest       *)
(* first, in the buffer being filled, what is left of the workspace, the   *)
(* kfifo and the completion being handled.                                 *)
(***************************************************************************)
\* The decoder's flags: the worker's copy while it decodes.
WorkFlags == IF work \in {"decode", "payload"} THEN loc ELSE dec

\* The buffer being filled has the start of image, unless it is empty, and not the end.
DecodeInv ==
    /\ work \in {"idle", "fetch"} => buf = <<>> /\ cur = 0
    /\ work \in {"decode", "payload"} => buf = workspace
    /\ io = "setup" => workspace = <<>>
    /\ active_buf = None => payload = <<>>
    /\ active_buf # None => /\ WorkFlags.building = TRUE
                            /\ WorkFlags.eof = FALSE
                            /\ payload = <<>> => WorkFlags.soi = FALSE
    /\ payload # <<>> => WorkFlags.soi = TRUE /\ Script[payload[1][2]].soi = TRUE

\* What is pushed next is no older than this.
LeastUnit == IF cb.at = "push" THEN cb.unit[2] ELSE next_unit

Rising(s) == \A i, j \in DOMAIN s : i < j => s[i][2] < s[j][2]
Precede(s, t) == \A i \in DOMAIN s, j \in DOMAIN t : s[i][2] < t[j][2]
OfSession(s) == \A i \in DOMAIN s : s[i][1] = session /\ s[i][2] < LeastUnit

OrderInv ==
    /\ Rising(workspace) /\ Rising(fifo) /\ Rising(payload)
    /\ Precede(workspace, fifo) /\ Precede(payload, fifo)
    /\ \A i \in DOMAIN payload, j \in DOMAIN workspace :
          j > cur => payload[i][2] < workspace[j][2]
    /\ OfSession(workspace) /\ OfSession(fifo) /\ OfSession(payload)
    /\ cb.at = "push" => cb.unit[1] = session /\ cb.unit[2] < next_unit

CleanInv == TypeInv /\ RefInv /\ DecodeInv /\ OrderInv /\ FramesClean

LEMMA UnitNumbers ==
    ASSUME NEW s \in Seq(Units), NEW i \in DOMAIN s
    PROVE  s[i] \in Units /\ s[i][2] \in Nat
<1>1. s[i] \in Units
  BY LenProperties, ElementOfSeq
<1>2. Len(Script) \in Nat
  BY ScriptTypes
<1> QED  BY <1>1, <1>2 DEF Units

\* The older units, then the newer ones.
LEMMA JoinUnits ==
    ASSUME NEW s \in Seq(Units), NEW t \in Seq(Units)
    PROVE  /\ s \o t \in Seq(Units)
           /\ \A k \in DOMAIN (s \o t) : \/ k \in DOMAIN s /\ (s \o t)[k] = s[k]
                                         \/ /\ k - Len(s) \in DOMAIN t
                                            /\ (s \o t)[k] = t[k - Len(s)]
                                            /\ k > Len(s)
           /\ Rising(s) /\ Rising(t) /\ Precede(s, t) => Rising(s \o t)
<1> DEFINE m == Len(s)  n == Len(t)  u == s \o t
<1>1. /\ m \in Nat /\ n \in Nat /\ DOMAIN s = 1 .. m /\ DOMAIN t = 1 .. n
      /\ u \in Seq(Units) /\ DOMAIN u = 1 .. m + n
      /\ \A k \in 1 .. m + n : u[k] = IF k <= m THEN s[k] ELSE t[k - m]
  <2>1. u \in Seq(Units) /\ Len(u) = m + n
    BY ConcatProperties
  <2>2. DOMAIN u = 1 .. m + n
    BY <2>1, LenProperties
  <2> QED  BY <2>1, <2>2, LenProperties, ConcatProperties
<1> HIDE DEF m, n, u
<1>2. \A k \in 1 .. m + n : \/ k \in 1 .. m /\ u[k] = s[k]
                            \/ k - m \in 1 .. n /\ u[k] = t[k - m] /\ k > m
  BY <1>1
<1>3. ASSUME Rising(s), Rising(t), Precede(s, t), NEW i \in DOMAIN u, NEW j \in DOMAIN u, i < j
      PROVE  u[i][2] < u[j][2]
  <2>1. i \in 1 .. m + n /\ j \in 1 .. m + n
    BY <1>1
  <2>2. CASE j <= m
    BY <1>1, <1>3, <2>1, <2>2 DEF Rising
  <2>3. CASE i <= m /\ j > m
    <3>1. i \in DOMAIN s /\ j - m \in DOMAIN t /\ u[i] = s[i] /\ u[j] = t[j - m]
      BY <1>1, <2>1, <2>3
    <3> QED  BY <1>3, <3>1 DEF Precede
  <2>4. CASE i > m
    <3>1. i - m < j - m /\ i - m \in 1 .. n /\ j - m \in 1 .. n /\ u[i] = t[i - m] /\ u[j] = t[j - m]
      BY <1>1, <1>3, <2>1, <2>4
    <3> QED  BY <1>1, <1>3, <3>1 DEF Rising
  <2> QED  BY <1>1, <2>1, <2>2, <2>3, <2>4
<1> QED  BY <1>1, <1>2, <1>3 DEF m, n, u, Rising

\* A stretch keeps the order.
LEMMA RisingSlice ==
    ASSUME NEW s \in Seq(Units), Rising(s), NEW m \in Nat \ {0}, NEW n \in Nat, n <= Len(s)
    PROVE  Rising(SubSeq(s, m, n))
<1> DEFINE t == SubSeq(s, m, n)
<1>1. /\ DOMAIN t = 1 .. n - m + 1 /\ \A i \in 1 .. n - m + 1 : t[i] = s[m + i - 1]
      /\ DOMAIN s = 1 .. Len(s) /\ Len(s) \in Nat
  BY Slice, LenProperties
<1>2. \A i \in 1 .. n - m + 1 : m + i - 1 \in DOMAIN s
  BY <1>1
<1> HIDE DEF t
<1>3. ASSUME NEW i \in DOMAIN t, NEW j \in DOMAIN t, i < j PROVE t[i][2] < t[j][2]
  <2>1. m + i - 1 \in DOMAIN s /\ m + j - 1 \in DOMAIN s /\ m + i - 1 < m + j - 1
    BY <1>1, <1>2, <1>3
  <2> QED  BY <1>1, <2>1 DEF Rising
<1>4. Rising(t)
  BY <1>3 DEF Rising
<1> QED  BY <1>4 DEF t

LEMMA NoUnits ==
    ASSUME NEW s
    PROVE  Rising(<<>>) /\ Precede(<<>>, s) /\ Precede(s, <<>>) /\ OfSession(<<>>)
           /\ DOMAIN <<>> = {} /\ <<>> \in Seq(Units)
  BY EmptySeq DEF Rising, Precede, OfSession

LEMMA CleanInit == Init => CleanInv
<1> SUFFICES ASSUME Init PROVE CleanInv
  OBVIOUS
<1>1. TypeInv /\ RefInv
  BY InitTypeInv, RefInit
<1>2. DecodeInv
  BY DEF Init, DecodeInv
<1>3. OrderInv
  BY NoUnits DEF Init, OrderInv, Idle
<1>4. FramesClean
  BY DEF Init, FramesClean, NoFrame
<1> QED  BY <1>1, <1>2, <1>3, <1>4 DEF CleanInv

\* The worker runs on a stream only.
LEMMA WorkerStreams == HaltInv /\ Worker => ~IsQuiet
  BY DEF HaltInv, QuietInv, Worker, WorkStart, WorkFetch, WorkSkip, WorkBoundary, WorkPass,
         WorkPayload, WorkReturn, FinishWork, PacketHere, InDecode

\* The decoder with one fragment: what it adds to the buffer being filled, and what it
\* leaves of it.
LEMMA FragmentStep ==
    ASSUME TypeInv, DecodeInv, WorkPayload
    PROVE  /\ pktUnits \in Seq(Units) /\ payload \in Seq(Units) /\ pktUnits # <<>>
           /\ payload \o pktUnits \in Seq(Units) /\ payload \o pktUnits # <<>>
           /\ active_buf # None =>
                 /\ Script[(payload \o pktUnits)[1][2]].soi = TRUE
                 /\ (payload \o pktUnits)[Len(payload \o pktUnits)] = buf[cur + pkt]
<1>0. /\ WorkTypes /\ work = "payload" /\ ~Passed
      /\ payload \in Seq(Units) /\ Len(payload) \in Nat
  BY LenProperties DEF TypeInv, BufTypes, WorkPayload
<1>1. /\ pkt \in {1, 2} /\ cur + pkt \in 1 .. Len(buf) /\ cur \in Nat /\ Len(buf) \in Nat
      /\ pktUnits \in Seq(Units) /\ Len(pktUnits) = pkt
      /\ pktUnits[1] = buf[cur + 1] /\ pktUnits[pkt] = buf[cur + pkt]
  <2>1. /\ pkt \in {1, 2} /\ cur + pkt \in 1 .. Len(buf) /\ cur \in Nat
        /\ pktUnits \in Seq(Units) /\ Len(pktUnits) = pkt
        /\ \A i \in 1 .. pkt : pktUnits[i] = buf[cur + i]
    BY <1>0, PktUnits
  <2>2. 1 \in 1 .. pkt /\ pkt \in 1 .. pkt
    BY <2>1
  <2>3. Len(buf) \in Nat
    BY <1>0, LenProperties DEF WorkTypes
  <2> QED  BY <2>1, <2>2, <2>3
<1> DEFINE u == payload \o pktUnits
<1>2. /\ u \in Seq(Units) /\ Len(u) = Len(payload) + pkt
      /\ \A i \in 1 .. Len(payload) + pkt :
            u[i] = IF i <= Len(payload) THEN payload[i] ELSE pktUnits[i - Len(payload)]
  BY <1>0, <1>1, ConcatProperties
<1>3. Len(<<>>) = 0 /\ (payload = <<>> <=> Len(payload) = 0)
  BY <1>0, EmptySeq
<1>4. u # <<>> /\ pktUnits # <<>>
  BY <1>0, <1>1, <1>2, <1>3
<1>5. u[Len(u)] = buf[cur + pkt]
  <2>1. Len(payload) + pkt \in 1 .. Len(payload) + pkt
        /\ ~(Len(payload) + pkt <= Len(payload)) /\ Len(payload) + pkt - Len(payload) = pkt
    BY <1>0, <1>1
  <2> QED  BY <1>1, <1>2, <2>1
<1>6. 1 \in 1 .. Len(payload) + pkt
  BY <1>0, <1>1
<1>7. ASSUME active_buf # None PROVE Script[u[1][2]].soi = TRUE
  <2>1. CASE payload = <<>>
    <3>1. u[1] = buf[cur + 1]
      BY <1>1, <1>2, <1>3, <1>6, <2>1
    <3>2. loc.soi = FALSE
      BY <1>0, <1>7, <2>1 DEF DecodeInv, WorkFlags
    <3>3. Unit(cur + 1).soi
      BY <1>0, <3>2 DEF Passed
    <3>4. Unit(cur + 1).soi \in BOOLEAN
      <4>1. cur + 1 \in 1 .. Len(buf)
        BY <1>1
      <4> QED  BY <1>0, <4>1, UnitTypes
    <3> QED  BY <3>1, <3>3, <3>4 DEF Unit
  <2>2. CASE payload # <<>>
    <3>1. u[1] = payload[1]
      BY <1>0, <1>2, <1>3, <1>6, <2>2
    <3> QED  BY <2>2, <3>1 DEF DecodeInv
  <2> QED  BY <2>1, <2>2
<1> QED  BY <1>0, <1>1, <1>2, <1>4, <1>5, <1>7

LEMMA DecodeStep == TypeInv /\ HaltInv /\ DecodeInv /\ [Next]_vars => DecodeInv'
<1> SUFFICES ASSUME TypeInv, HaltInv, DecodeInv, [Next]_vars PROVE DecodeInv'
  OBVIOUS
<1>1. CASE /\ UNCHANGED <<work, buf, cur, workspace, active_buf, payload, dec, loc>>
           /\ io' # "setup"
  BY <1>1 DEF DecodeInv, WorkFlags
<1>2. CASE StartReset
  <2>1. /\ io = "start" /\ io' = "setup" /\ active_buf' = None /\ payload' = <<>>
        /\ workspace' = <<>> /\ UNCHANGED <<work, buf, cur>>
    BY <1>2 DEF StartReset, ResetTo, Io
  <2>2. work = "idle"
    BY <2>1 DEF HaltInv, QuietInv, IsQuiet
  <2> QED  BY <2>1, <2>2 DEF DecodeInv
<1>3. CASE StopFlush
  <2>1. /\ io' = "stopped" /\ work = "idle" /\ active_buf' = None
        /\ payload' = IF active_buf = None THEN payload ELSE <<>>
        /\ UNCHANGED <<work, buf, cur, workspace>>
    BY <1>3 DEF StopFlush, StopReturnBuffers, Io
  <2> QED  BY <2>1 DEF DecodeInv
<1>4. CASE Worker
  <2>0. io # "setup" /\ UNCHANGED io
    BY <1>4, WorkerStreams DEF IsQuiet, Worker, WorkStart, WorkFetch, WorkSkip, WorkBoundary,
       WorkPass, WorkPayload, WorkReturn, FinishWork, ioVars
  <2>1. CASE WorkStart
    BY <2>0, <2>1 DEF WorkStart, bufVars, DecodeInv, WorkFlags
  <2>2. CASE WorkFetch
    BY <2>0, <2>2 DEF WorkFetch, bufVars, DecodeInv, WorkFlags
  <2>3. CASE WorkSkip \/ WorkPass
    BY <2>0, <2>3 DEF WorkSkip, InDecode, WorkPass, bufVars, DecodeInv, WorkFlags
  <2>4. CASE WorkBoundary
    <3>1. /\ work = "decode" /\ work' = "payload" /\ UNCHANGED <<buf, workspace, cur>>
      BY <2>4 DEF WorkBoundary, PacketHere, InDecode
    <3>2. CASE ~NewFrame
      BY <2>0, <2>4, <3>1, <3>2 DEF WorkBoundary, bufVars, DecodeInv, WorkFlags
    <3>3. CASE NewFrame
      <4>1. payload' = <<>> /\ loc'.building = TRUE /\ loc'.soi = FALSE /\ loc'.eof = FALSE
        BY <2>4, <3>3 DEF WorkBoundary
      <4> QED  BY <2>0, <3>1, <4>1 DEF DecodeInv, WorkFlags
    <3> QED  BY <3>2, <3>3
  <2>5. CASE WorkPayload
    <3>1. /\ work = "payload" /\ work' = "decode" /\ UNCHANGED <<buf, workspace>>
      BY <2>5 DEF WorkPayload
    <3>2. PICK eoi \in pktEois :
            /\ loc' = [building |-> loc.building, frame |-> loc.frame, soi |-> TRUE, eof |-> eoi]
            /\ \/ active_buf = None /\ UNCHANGED <<active_buf, payload>>
               \/ active_buf' = None /\ payload' = <<>>
               \/ /\ active_buf # None /\ ~eoi
                  /\ payload' = payload \o pktUnits /\ UNCHANGED active_buf
      BY <2>5 DEF WorkPayload
    <3>3. WorkTypes /\ eoi \in BOOLEAN
      BY <3>1, PktEois DEF TypeInv
    <3>4. CASE active_buf = None /\ UNCHANGED <<active_buf, payload>>
      BY <2>0, <3>1, <3>4 DEF DecodeInv, WorkFlags
    <3>5. CASE active_buf' = None /\ payload' = <<>>
      BY <2>0, <3>1, <3>5 DEF DecodeInv, WorkFlags
    <3>6. CASE /\ active_buf # None /\ ~eoi
               /\ payload' = payload \o pktUnits /\ UNCHANGED active_buf
      <4>1. payload' # <<>> /\ Script[payload'[1][2]].soi = TRUE
        BY <2>5, <3>6, FragmentStep
      <4>2. eoi = FALSE
        BY <3>3, <3>6, Zenon
      <4>3. loc'.building = TRUE /\ loc'.soi = TRUE /\ loc'.eof = FALSE
        BY <3>1, <3>2, <3>6, <4>2 DEF DecodeInv, WorkFlags
      <4> QED  BY <2>0, <3>1, <3>6, <4>1, <4>3 DEF DecodeInv, WorkFlags
    <3> QED  BY <3>2, <3>4, <3>5, <3>6
  <2>6. CASE WorkReturn
    BY <2>0, <2>6 DEF WorkReturn, FinishWork, bufVars, DecodeInv, WorkFlags
  <2> QED  BY <1>4, <2>1, <2>2, <2>3, <2>4, <2>5, <2>6 DEF Worker
<1>5. CASE Complete \/ Callback \/ UNCHANGED vars
  <2>1. UNCHANGED <<io, work, buf, cur, workspace, active_buf, payload, dec, loc>>
    BY <1>5 DEF Complete, Callback, CbPush, CbQueueWork, CbRetest, CbSubmit, vars, ioVars,
       bufVars, workVars
  <2> QED  BY <2>1 DEF DecodeInv, WorkFlags
<1>6. CASE SubmitUrb \/ KillUrb \/ (\E b \in Buffers : Qbuf(b) \/ Dqbuf(b))
  <2>1. io # "setup" /\ io' # "setup"
        /\ UNCHANGED <<work, buf, cur, workspace, active_buf, payload, dec, loc>>
    BY <1>6 DEF SubmitUrb, KillUrb, Qbuf, Dqbuf, ioVars, bufVars, workVars
  <2> QED  BY <1>1, <2>1
<1>7. CASE \/ Streamon \/ Streamoff \/ StartFailed \/ StopReturned \/ SetupHardware \/ StartReady
           \/ StartDone \/ ErrorReady \/ ErrorDrain \/ StopVideo \/ StopReady \/ StopCancel
  <2>1. io' # "setup" /\ UNCHANGED <<work, buf, cur, workspace, active_buf, payload, dec, loc>>
    BY <1>7 DEF Streamon, Streamoff, StartFailed, StopReturned, SetupHardware, StartReady,
       StartDone, ErrorReady, ErrorDrain, ReturnReady, StopVideo, StopReady, StopCancel, Io,
       bufVars, workVars
  <2> QED  BY <1>1, <2>1
<1> QED
  BY <1>2, <1>3, <1>4, <1>5, <1>6, <1>7 DEF Next, Ioctl, StartStop

\* What has come so far stays older than what comes: the camera only goes on.
LEMMA OrderCamera ==
    ASSUME TypeInv, OrderInv,
           UNCHANGED <<workspace, fifo, payload, cur, session>>,
           LeastUnit' \in Nat, LeastUnit <= LeastUnit',
           cb'.at = "push" => cb'.unit[1] = session /\ cb'.unit[2] < next_unit'
    PROVE  OrderInv'
<1>1. LeastUnit \in Nat
  BY ScriptTypes DEF TypeInv, UrbTypes, IoTypes, Units, LeastUnit
<1>2. /\ \A i \in DOMAIN workspace : workspace[i][2] \in Nat
      /\ \A i \in DOMAIN fifo : fifo[i][2] \in Nat
      /\ \A i \in DOMAIN payload : payload[i][2] \in Nat
  BY UnitNumbers DEF TypeInv, UrbTypes, WorkTypes, BufTypes
<1>3. OfSession(workspace)' /\ OfSession(fifo)' /\ OfSession(payload)'
  BY <1>1, <1>2 DEF OrderInv, OfSession
<1> QED  BY <1>3 DEF OrderInv, Rising, Precede

\* Nothing has come yet.
LEMMA OrderEmpty ==
    ASSUME workspace' = <<>>, fifo' = <<>>, payload' = <<>>, cb' = Idle
    PROVE  OrderInv'
<1>1. cb'.at # "push"
  BY DEF Idle
<1>2. Rising(<<>>) /\ Precede(<<>>, <<>>) /\ DOMAIN <<>> = {}
  BY NoUnits
<1>3. OfSession(workspace)' /\ OfSession(fifo)' /\ OfSession(payload)'
  BY <1>2 DEF OfSession
<1> QED  BY <1>1, <1>2, <1>3 DEF OrderInv, Rising, Precede

LEMMA OrderCompletion == TypeInv /\ OrderInv /\ (Complete \/ Callback) => OrderInv'
<1> SUFFICES ASSUME TypeInv, OrderInv, Complete \/ Callback PROVE OrderInv'
  OBVIOUS
<1>0. /\ next_unit \in Nat /\ fifo \in Seq(Units)
      /\ cb.at = "push" => cb.unit \in Units /\ cb.unit[2] \in Nat
  BY ScriptTypes DEF TypeInv, UrbTypes, IoTypes, Units
<1>1. UNCHANGED <<workspace, payload, cur, session>>
  BY DEF Complete, Callback, CbPush, CbQueueWork, CbRetest, CbSubmit, ioVars, bufVars,
     workVars
<1>2. CASE Complete
  <2>1. /\ cb = Idle /\ next_unit' = next_unit + 1 /\ UNCHANGED fifo
        /\ \/ cb'.at = "push" /\ cb'.unit = <<session, next_unit>>
           \/ cb'.at # "push"
    BY <1>2 DEF Complete, Idle
  <2>2. LeastUnit = next_unit
    BY <2>1 DEF Idle, LeastUnit
  <2>3. LeastUnit' \in Nat /\ LeastUnit <= LeastUnit'
    BY <1>0, <2>1, <2>2 DEF LeastUnit
  <2> QED  BY <1>0, <1>1, <2>1, <2>3, OrderCamera
<1>3. CASE CbQueueWork \/ CbRetest \/ CbSubmit
  <2>1. cb.at # "push" /\ cb'.at # "push" /\ UNCHANGED <<next_unit, fifo>>
    BY <1>3 DEF CbQueueWork, CbRetest, CbSubmit, CbAt, Idle, camVars
  <2> QED  BY <1>0, <1>1, <2>1, OrderCamera DEF LeastUnit
<1>4. CASE CbPush
  <2>1. /\ cb.at = "push" /\ cb'.at # "push" /\ UNCHANGED next_unit
        /\ fifo' = fifo \/ fifo' = Append(fifo, cb.unit)
    BY <1>4 DEF CbPush, CbAt, camVars
  <2>2. /\ LeastUnit = cb.unit[2] /\ LeastUnit' = next_unit
        /\ cb.unit[1] = session /\ cb.unit[2] < next_unit
    BY <2>1 DEF LeastUnit, OrderInv
  <2>3. CASE fifo' = fifo
    <3>1. LeastUnit' \in Nat /\ LeastUnit <= LeastUnit'
      BY <1>0, <2>1, <2>2
    <3> QED  BY <1>1, <2>1, <2>3, <3>1, OrderCamera
  <2>4. CASE fifo' = Append(fifo, cb.unit)
    <3> DEFINE n == Len(fifo)
    <3>1. /\ n \in Nat /\ DOMAIN fifo = 1 .. n /\ DOMAIN fifo' = 1 .. n + 1
          /\ fifo'[n + 1] = cb.unit /\ \A i \in 1 .. n : fifo'[i] = fifo[i]
      <4>1. fifo' \in Seq(Units) /\ Len(fifo') = n + 1
        BY <1>0, <2>1, <2>4, AppendProperties
      <4> QED  BY <1>0, <2>1, <2>4, <4>1, AppendProperties, LenProperties
    <3> HIDE DEF n
    <3>2. \A i \in 1 .. n + 1 : i \in 1 .. n \/ i = n + 1
      BY <3>1
    <3>3. /\ \A i \in DOMAIN workspace : workspace[i][2] \in Nat /\ workspace[i][2] < cb.unit[2]
          /\ \A i \in DOMAIN fifo : fifo[i][2] \in Nat /\ fifo[i][2] < cb.unit[2]
          /\ \A i \in DOMAIN payload : payload[i][2] \in Nat /\ payload[i][2] < cb.unit[2]
      BY <2>2, UnitNumbers DEF TypeInv, UrbTypes, WorkTypes, BufTypes, OrderInv, OfSession
    <3>4. Rising(fifo)'
      <4>1. \A i, j \in 1 .. n + 1 : i < j => i \in 1 .. n
        BY <3>1
      <4> QED  BY <3>1, <3>2, <3>3, <4>1 DEF OrderInv, Rising
    <3>5. Precede(workspace, fifo)' /\ Precede(payload, fifo)'
      BY <1>1, <3>1, <3>2, <3>3 DEF OrderInv, Precede
    <3>6. OfSession(workspace)' /\ OfSession(payload)'
      BY <1>0, <1>1, <2>1, <2>2, <3>3 DEF OrderInv, OfSession
    <3>7. OfSession(fifo)'
      <4>1. ASSUME NEW i \in DOMAIN fifo'
            PROVE  fifo'[i][1] = session' /\ fifo'[i][2] < LeastUnit'
        <5>1. CASE i \in 1 .. n
          BY <1>0, <1>1, <2>1, <2>2, <3>1, <3>3, <5>1 DEF OrderInv, OfSession
        <5>2. CASE i = n + 1
          BY <1>1, <2>2, <3>1, <5>2
        <5> QED  BY <3>1, <3>2, <4>1, <5>1, <5>2
      <4> QED  BY <4>1 DEF OfSession
    <3> QED  BY <1>1, <2>1, <3>4, <3>5, <3>6, <3>7 DEF OrderInv, Rising
  <2> QED  BY <2>1, <2>3, <2>4
<1> QED  BY <1>2, <1>3, <1>4 DEF Callback

\* The worker moves the units on, from the kfifo to the workspace and from there to the
\* buffer, and leaves some out.
LEMMA OrderWorker == TypeInv /\ DecodeInv /\ OrderInv /\ Worker => OrderInv'
<1> SUFFICES ASSUME TypeInv, DecodeInv, OrderInv, Worker PROVE OrderInv'
  OBVIOUS
<1>0. /\ workspace \in Seq(Units) /\ fifo \in Seq(Units) /\ payload \in Seq(Units)
      /\ cur \in Nat /\ WorkTypes
  BY LenProperties DEF TypeInv, WorkTypes, UrbTypes, BufTypes
<1>1. UNCHANGED <<session, next_unit, cb>>
  BY DEF Worker, WorkStart, WorkFetch, WorkSkip, WorkBoundary, WorkPass, WorkPayload,
     WorkReturn, FinishWork, ioVars, camVars, urbVars
<1>2. CASE UNCHANGED <<workspace, fifo>> /\ payload' \in {payload, <<>>} /\ cur' \in Nat /\ cur <= cur'
  <2>1. CASE payload' = payload
    <3>1. \A j \in DOMAIN workspace : j \in Nat
      BY <1>0, LenProperties
    <3>2. \A j \in DOMAIN workspace : j > cur' => j > cur
      BY <1>0, <1>2, <3>1
    <3> QED  BY <1>1, <1>2, <2>1, <3>2 DEF OrderInv, Rising, Precede, OfSession, LeastUnit
  <2>2. CASE payload' = <<>>
    <3>1. Rising(payload') /\ DOMAIN payload' = {}
      BY <2>2, NoUnits
    <3> QED  BY <1>1, <1>2, <3>1 DEF OrderInv, Rising, Precede, OfSession, LeastUnit
  <2> QED  BY <1>2, <2>1, <2>2
<1>3. CASE WorkStart
  BY <1>0, <1>2, <1>3 DEF WorkStart, bufVars
<1>4. CASE WorkFetch
  <2>1. /\ fifo' = <<>> /\ workspace' = workspace \o fifo /\ cur = 0
        /\ UNCHANGED <<cur, payload>>
    BY <1>4, FetchTakesAll DEF WorkFetch, bufVars
  <2>2. /\ Rising(workspace')
        /\ \A k \in DOMAIN workspace' :
              \/ k \in DOMAIN workspace /\ workspace'[k] = workspace[k]
              \/ /\ k - Len(workspace) \in DOMAIN fifo
                 /\ workspace'[k] = fifo[k - Len(workspace)]
    BY <1>0, <2>1, JoinUnits DEF OrderInv
  <2>3. Rising(fifo') /\ DOMAIN fifo' = {}
    BY <2>1, NoUnits
  <2>4. \A j \in DOMAIN workspace : j > cur
    BY <1>0, <2>1, LenProperties
  <2>5. ASSUME NEW i \in DOMAIN payload, NEW k \in DOMAIN workspace'
        PROVE  payload[i][2] < workspace'[k][2]
    BY <2>2, <2>4, <2>5 DEF OrderInv, Precede
  <2>6. OfSession(workspace)'
    BY <1>1, <2>2 DEF OrderInv, OfSession, LeastUnit
  <2>7. /\ OfSession(payload)' /\ OfSession(fifo)' /\ Rising(payload)'
        /\ cb'.at = "push" => cb'.unit[1] = session' /\ cb'.unit[2] < next_unit'
    BY <1>1, <2>1, <2>3 DEF OrderInv, OfSession, LeastUnit, Rising
  <2>8. Precede(workspace, fifo)' /\ Precede(payload, fifo)'
    BY <2>3 DEF Precede
  <2> QED  BY <2>1, <2>2, <2>3, <2>5, <2>6, <2>7, <2>8 DEF OrderInv, Rising
<1>5. CASE WorkSkip
  BY <1>0, <1>2, <1>5 DEF WorkSkip, bufVars
<1>6. CASE WorkBoundary
  <2>1. UNCHANGED <<workspace, fifo, cur>> /\ payload' \in {payload, <<>>}
    BY <1>6 DEF WorkBoundary, bufVars
  <2> QED  BY <1>0, <1>2, <2>1
<1>7. ASSUME WorkPass \/ WorkPayload
      PROVE  /\ UNCHANGED <<workspace, fifo>> /\ cur' = cur + pkt /\ pkt \in {1, 2}
             /\ buf = workspace /\ cur + pkt \in 1 .. Len(workspace)
             /\ DOMAIN workspace = 1 .. Len(workspace)
             /\ work = "payload" /\ cur + pkt \in Nat /\ cur <= cur'
  <2>1. work = "payload" /\ UNCHANGED <<workspace, fifo>> /\ cur' = cur + pkt
    BY <1>7 DEF WorkPass, WorkPayload
  <2>2. buf = workspace
    BY <2>1 DEF DecodeInv
  <2>3. pkt \in {1, 2} /\ cur + pkt \in 1 .. Len(buf)
    BY <1>0, <2>1, PktUnits
  <2> QED  BY <1>0, <2>1, <2>2, <2>3, LenProperties
<1>8. CASE WorkPass
  BY <1>2, <1>7, <1>8 DEF WorkPass, bufVars
<1>9. CASE WorkPayload
  <2>1. CASE payload' \in {payload, <<>>}
    BY <1>2, <1>7, <1>9, <2>1
  <2>2. CASE payload' = payload \o pktUnits
    <3>1. /\ pktUnits \in Seq(Units)
          /\ pktUnits = SubSeq(workspace, cur + 1, cur + pkt)
          /\ DOMAIN pktUnits = 1 .. pkt
          /\ \A i \in 1 .. pkt : pktUnits[i] = workspace[cur + i]
      BY <1>0, <1>7, <1>9, PktUnits DEF pktUnits
    <3>2. \A i \in 1 .. pkt : cur + i \in DOMAIN workspace /\ cur + i > cur
      BY <1>0, <1>7, <1>9
    <3>3. Rising(pktUnits)
      BY <1>0, <1>7, <1>9, <3>1, RisingSlice, LenProperties DEF OrderInv
    <3>4. Precede(payload, pktUnits)
      BY <3>1, <3>2 DEF OrderInv, Precede
    <3>5. /\ Rising(payload')
          /\ \A k \in DOMAIN payload' :
                \/ k \in DOMAIN payload /\ payload'[k] = payload[k]
                \/ \E i \in 1 .. pkt : payload'[k] = workspace[cur + i]
      <4>1. /\ Rising(payload')
            /\ \A k \in DOMAIN payload' :
                  \/ k \in DOMAIN payload /\ payload'[k] = payload[k]
                  \/ /\ k - Len(payload) \in DOMAIN pktUnits
                     /\ payload'[k] = pktUnits[k - Len(payload)]
        <5>1. Rising(payload)
          BY DEF OrderInv
        <5> HIDE DEF Rising, Precede
        <5> QED  BY <1>0, <2>2, <3>1, <3>3, <3>4, <5>1, JoinUnits
      <4> QED  BY <3>1, <4>1
    <3>6. ASSUME NEW k \in DOMAIN payload', NEW j \in DOMAIN workspace, j > cur'
          PROVE  payload'[k][2] < workspace[j][2]
      <4>1. j \in Nat /\ j > cur
        BY <1>0, <1>7, <1>9, <3>6
      <4>2. CASE k \in DOMAIN payload /\ payload'[k] = payload[k]
        BY <4>1, <4>2 DEF OrderInv
      <4>3. ASSUME NEW i \in 1 .. pkt, payload'[k] = workspace[cur + i]
            PROVE  payload'[k][2] < workspace[j][2]
        <5>1. cur + i \in DOMAIN workspace /\ cur + i < j
          BY <1>0, <1>7, <1>9, <3>2, <3>6, <4>1
        <5> QED  BY <4>3, <5>1 DEF OrderInv, Rising
      <4> QED  BY <3>5, <4>2, <4>3
    <3>7. Precede(payload, fifo)'
      BY <1>7, <1>9, <3>2, <3>5 DEF OrderInv, Precede
    <3>8. OfSession(payload)'
      BY <1>1, <3>2, <3>5 DEF OrderInv, OfSession, LeastUnit
    <3>9. /\ OfSession(workspace)' /\ OfSession(fifo)' /\ Precede(workspace, fifo)'
          /\ Rising(workspace)' /\ Rising(fifo)'
          /\ cb'.at = "push" => cb'.unit[1] = session' /\ cb'.unit[2] < next_unit'
      BY <1>1, <1>7, <1>9 DEF OrderInv, OfSession, LeastUnit, Rising, Precede
    <3> QED  BY <1>7, <1>9, <3>5, <3>6, <3>7, <3>8, <3>9 DEF OrderInv, Rising
  <2> QED  BY <1>9, <2>1, <2>2 DEF WorkPayload
<1>10. CASE WorkReturn
  <2>1. /\ workspace' = SubSeq(workspace, cur + 1, Len(workspace)) /\ cur' = 0
        /\ UNCHANGED <<fifo, payload>>
    BY <1>10 DEF WorkReturn, FinishWork, bufVars
  <2>2. Len(workspace) \in Nat /\ DOMAIN workspace = 1 .. Len(workspace)
        /\ cur + 1 \in Nat \ {0}
    BY <1>0, LenProperties
  <2>3. /\ DOMAIN workspace' = 1 .. Len(workspace) - (cur + 1) + 1
        /\ \A i \in 1 .. Len(workspace) - (cur + 1) + 1 :
              workspace'[i] = workspace[cur + 1 + i - 1]
    BY <1>0, <2>1, <2>2, Slice
  <2>4. \A i \in DOMAIN workspace' : \E j \in DOMAIN workspace :
           j > cur /\ workspace'[i] = workspace[j]
    <3>1. ASSUME NEW i \in 1 .. Len(workspace) - (cur + 1) + 1
          PROVE  cur + 1 + i - 1 \in 1 .. Len(workspace) /\ cur + 1 + i - 1 > cur
      BY <1>0, <2>2, <3>1
    <3> QED  BY <2>2, <2>3, <3>1
  <2>5. Rising(workspace')
    BY <1>0, <2>1, <2>2, RisingSlice DEF OrderInv
  <2>6. OfSession(workspace)' /\ Precede(workspace, fifo)'
    BY <1>1, <2>1, <2>4, ZenonT(60) DEF OrderInv, OfSession, LeastUnit, Precede
  <2>7. /\ OfSession(payload)' /\ OfSession(fifo)' /\ Precede(payload, fifo)'
        /\ Rising(payload)' /\ Rising(fifo)'
        /\ cb'.at = "push" => cb'.unit[1] = session' /\ cb'.unit[2] < next_unit'
    BY <1>1, <2>1 DEF OrderInv, OfSession, LeastUnit, Rising, Precede
  <2>8. \A i \in DOMAIN payload', j \in DOMAIN workspace' : payload'[i][2] < workspace'[j][2]
    BY <2>1, <2>4 DEF OrderInv
  <2> QED  BY <2>5, <2>6, <2>7, <2>8 DEF OrderInv, Rising
<1> QED  BY <1>3, <1>4, <1>5, <1>6, <1>8, <1>9, <1>10 DEF Worker

LEMMA OrderStep ==
    TypeInv /\ HaltInv /\ DecodeInv /\ OrderInv /\ [Next]_vars => OrderInv'
<1> SUFFICES ASSUME TypeInv, HaltInv, DecodeInv, OrderInv, [Next]_vars PROVE OrderInv'
  OBVIOUS
<1>1. CASE UNCHANGED <<workspace, fifo, payload, cur, session, next_unit, cb>>
  BY <1>1 DEF OrderInv, Rising, Precede, OfSession, LeastUnit
<1>2. CASE StartReset \/ SetupHardware
  <2>1. io \in {"start", "setup"} /\ cb' = cb
    BY <1>2 DEF StartReset, ResetTo, SetupHardware, Io, urbVars
  <2>2. cb = Idle /\ fifo = <<>> /\ active_buf = None
    BY <2>1 DEF HaltInv, QuietInv, IsQuiet
  <2>3. workspace' = <<>> /\ fifo' = <<>> /\ payload' = <<>>
    BY <1>2, <2>2 DEF StartReset, ResetTo, SetupHardware, Io, DecodeInv, bufVars, workVars
  <2> QED  BY <2>1, <2>2, <2>3, OrderEmpty
<1>3. CASE StopFlush
  <2>1. /\ fifo' = <<>> /\ payload' = <<>>
        /\ UNCHANGED <<workspace, cur, session, next_unit, cb>>
    BY <1>3 DEF StopFlush, StopReturnBuffers, DecodeInv, camVars, urbVars
  <2>2. Rising(<<>>) /\ DOMAIN <<>> = {}
    BY NoUnits
  <2> QED  BY <2>1, <2>2 DEF OrderInv, Rising, Precede, OfSession, LeastUnit
<1>4. CASE Complete \/ Callback
  BY <1>4, OrderCompletion
<1>5. CASE Worker
  BY <1>5, OrderWorker
<1>6. CASE \/ Ioctl \/ StartFailed \/ StopReturned \/ StartReady \/ SubmitUrb \/ StartDone
           \/ ErrorReady \/ ErrorDrain \/ KillUrb \/ StopVideo \/ StopReady \/ StopCancel
           \/ UNCHANGED vars
  <2>1. UNCHANGED <<workspace, fifo, payload, cur, session, next_unit, cb>>
    BY <1>6 DEF Ioctl, Qbuf, Dqbuf, Streamon, Streamoff, StartFailed, StopReturned, StartReady,
       SubmitUrb, StartDone, ErrorReady, ErrorDrain, ReturnReady, KillUrb, StopVideo, StopReady,
       StopCancel, ioVars, bufVars, camVars, urbVars, workVars, vars
  <2> QED  BY <1>1, <2>1
<1> QED  BY <1>2, <1>3, <1>4, <1>5, <1>6 DEF Next, StartStop

\* What the decoder returns as a frame.
IsClean(u, n) ==
    /\ u # <<>> /\ Script[u[1][2]].soi /\ Script[u[Len(u)][2]].eoi
    /\ \A i \in 1 .. Len(u) : u[i][1] = n
    /\ \A i \in 1 .. Len(u) - 1 : u[i][2] < u[i + 1][2]

LEMMA FramesAsClean ==
    FramesClean <=> \A b \in Buffers : frames[b].ok => IsClean(frames[b].units, session)
  BY DEF FramesClean, IsClean

\* The end of the image is in the last packet, and all of it came in order.
LEMMA FrameEnds ==
    ASSUME TypeInv, DecodeInv, OrderInv, WorkPayload, active_buf # None,
           NEW eoi \in pktEois, eoi
    PROVE  IsClean(payload \o pktUnits, session)
<1> DEFINE u == payload \o pktUnits
<1>0. /\ WorkTypes /\ work = "payload" /\ buf = workspace
      /\ workspace \in Seq(Units) /\ payload \in Seq(Units)
  BY DEF TypeInv, WorkTypes, BufTypes, WorkPayload, DecodeInv
<1>1. /\ pktUnits \in Seq(Units) /\ u \in Seq(Units) /\ u # <<>>
      /\ Script[u[1][2]].soi = TRUE /\ u[Len(u)] = buf[cur + pkt]
  BY FragmentStep
<1>2. Script[u[Len(u)][2]].eoi
  <2>1. Unit(cur + pkt).eoi
    BY <1>0, PktEois, Zenon
  <2> QED  BY <1>1, <2>1 DEF Unit
<1>3. /\ DOMAIN pktUnits = 1 .. pkt /\ \A i \in 1 .. pkt : pktUnits[i] = workspace[cur + i]
      /\ pktUnits = SubSeq(workspace, cur + 1, cur + pkt)
      /\ pkt \in {1, 2} /\ cur \in Nat /\ cur + pkt \in 1 .. Len(workspace)
      /\ DOMAIN workspace = 1 .. Len(workspace) /\ Len(workspace) \in Nat
  BY <1>0, PktUnits, LenProperties DEF pktUnits
<1>4. \A i \in 1 .. pkt : cur + i \in DOMAIN workspace /\ cur + i > cur
  BY <1>3, SMTT(60)
<1>5. Rising(pktUnits)
  BY <1>0, <1>3, RisingSlice DEF OrderInv
<1>6. Precede(payload, pktUnits)
  BY <1>3, <1>4 DEF OrderInv, Precede
<1>7. /\ Rising(u)
      /\ \A k \in DOMAIN u : \/ k \in DOMAIN payload /\ u[k] = payload[k]
                             \/ /\ k - Len(payload) \in DOMAIN pktUnits
                                /\ u[k] = pktUnits[k - Len(payload)]
  <2>1. Rising(payload)
    BY DEF OrderInv
  <2> QED  BY <1>0, <1>1, <1>5, <1>6, <2>1, JoinUnits
<1>8. DOMAIN u = 1 .. Len(u) /\ Len(u) \in Nat
  BY <1>1, LenProperties
<1> HIDE DEF u
<1>9. \A k \in 1 .. Len(u) : u[k][1] = session
  <2>1. \A i \in DOMAIN pktUnits : pktUnits[i][1] = session
    BY <1>3, <1>4 DEF OrderInv, OfSession
  <2>2. \A i \in DOMAIN payload : payload[i][1] = session
    BY DEF OrderInv, OfSession
  <2> QED  BY <1>7, <1>8, <2>1, <2>2
<1>10. \A k \in 1 .. Len(u) - 1 : u[k][2] < u[k + 1][2]
  <2>1. ASSUME NEW k \in 1 .. Len(u) - 1
        PROVE  k \in DOMAIN u /\ k + 1 \in DOMAIN u /\ k < k + 1
    BY <1>8, <2>1
  <2> QED  BY <1>7, <2>1 DEF Rising
<1>11. IsClean(u, session)
  BY <1>1, <1>2, <1>9, <1>10 DEF IsClean
<1> QED  BY <1>11 DEF u

LEMMA FramesStep ==
    ASSUME TypeInv, RefInv, DecodeInv, OrderInv, FramesClean, [Next]_vars
    PROVE  FramesClean'
<1>0. \A b \in Buffers : frames[b].ok => IsClean(frames[b].units, session)
  BY FramesAsClean
<1> SUFFICES \A b \in Buffers : frames'[b].ok => IsClean(frames'[b].units, session')
  BY DEF FramesClean, IsClean
<1>1. CASE UNCHANGED <<frames, session>>
  BY <1>0, <1>1
<1>2. CASE UNCHANGED session /\ frames' = [b \in Buffers |-> NoFrame]
  BY <1>2 DEF NoFrame
<1>a. frames = [b \in Buffers |-> frames[b]]
  BY DEF RefInv, FrameInv
<1>3. ASSUME NEW d \in Buffers, NEW f, UNCHANGED session, frames' = [frames EXCEPT ![d] = f],
             f.ok => IsClean(f.units, session)
      PROVE  \A b \in Buffers : frames'[b].ok => IsClean(frames'[b].units, session')
  <2>1. \A b \in Buffers : frames'[b] = IF b = d THEN f ELSE frames[b]
    BY <1>a, <1>3
  <2> QED  BY <1>0, <1>3, <2>1
<1>b. ~NoFrame.ok
  BY DEF NoFrame
<1>4. ASSUME NEW d \in Buffers, Dqbuf(d)
      PROVE  \A b \in Buffers : frames'[b].ok => IsClean(frames'[b].units, session')
  <2>1. UNCHANGED session /\ frames' = [frames EXCEPT ![d] = NoFrame]
    BY <1>4 DEF Dqbuf, ioVars
  <2> QED  BY <1>3, <1>b, <2>1
<1>5. CASE StopReturned
  BY <1>2, <1>5 DEF StopReturned
<1>6. CASE StartReset
  <2>1. io = "start" /\ UNCHANGED frames
    BY <1>6 DEF StartReset, ResetTo, Io
  <2>2. \A b \in Buffers : ~frames[b].ok
    BY <2>1 DEF RefInv, OwnedInv, QueuedInv, IsQuiet, FrameInv
  <2> QED  BY <2>1, <2>2
<1>7. CASE Worker
  <2>1. UNCHANGED session
    BY <1>7 DEF Worker, WorkStart, WorkFetch, WorkSkip, WorkBoundary, WorkPass,
     WorkPayload, WorkReturn, FinishWork, ioVars
  <2>2. CASE WorkPayload
    <3>1. CASE UNCHANGED frames
      BY <1>1, <2>1, <3>1
    <3>2. CASE active_buf # None /\ frames' = DoneFrame(active_buf, NoFrame)
      <4>1. active_buf \in Buffers /\ buf_state[active_buf] = "active"
        BY <3>2 DEF RefInv, OwnedInv, HeldInv
      <4>2. frames' = [frames EXCEPT ![active_buf] = NoFrame]
        BY <3>2, <4>1 DEF DoneFrame
      <4> QED  BY <1>3, <1>b, <2>1, <4>1, <4>2
    <3>3. ASSUME NEW eoi \in pktEois, eoi, active_buf # None,
                 frames' = DoneFrame(active_buf, [ok |-> TRUE, units |-> payload \o pktUnits])
          PROVE  \A b \in Buffers : frames'[b].ok => IsClean(frames'[b].units, session')
      <4> DEFINE f == [ok |-> TRUE, units |-> payload \o pktUnits]
      <4>1. active_buf \in Buffers /\ buf_state[active_buf] = "active"
        BY <3>3 DEF RefInv, OwnedInv, HeldInv
      <4>2. frames' = [frames EXCEPT ![active_buf] = f]
        BY <3>3, <4>1 DEF DoneFrame
      <4>3. IsClean(f.units, session)
        BY <2>2, <3>3, FrameEnds
      <4> HIDE DEF f
      <4> QED  BY <1>3, <2>1, <4>1, <4>2, <4>3
    <3> QED  BY <2>2, <3>1, <3>2, <3>3 DEF WorkPayload
  <2>3. CASE WorkBoundary
    <3>1. CASE UNCHANGED frames
      BY <1>1, <2>1, <3>1
    <3>2. CASE active_buf # None /\ frames' = DoneFrame(active_buf, NoFrame)
      <4>1. active_buf \in Buffers /\ buf_state[active_buf] = "active"
        BY <3>2 DEF RefInv, OwnedInv, HeldInv
      <4>2. frames' = [frames EXCEPT ![active_buf] = NoFrame]
        BY <3>2, <4>1 DEF DoneFrame
      <4> QED  BY <1>3, <1>b, <2>1, <4>1, <4>2
    <3> QED  BY <2>3, <3>1, <3>2 DEF WorkBoundary, StartFrame, bufVars
  <2>4. CASE WorkStart \/ WorkFetch \/ WorkSkip \/ WorkPass \/ WorkReturn
    <3>1. UNCHANGED frames
      BY <2>4 DEF WorkStart, WorkFetch, WorkSkip, WorkPass, WorkReturn, FinishWork, bufVars
    <3> QED  BY <1>1, <2>1, <3>1
  <2> QED  BY <1>7, <2>2, <2>3, <2>4 DEF Worker
<1>8. CASE \/ (\E b \in Buffers : Qbuf(b)) \/ Streamon \/ Streamoff \/ StartFailed
           \/ SetupHardware \/ StartReady \/ SubmitUrb \/ StartDone \/ ErrorReady \/ ErrorDrain
           \/ KillUrb \/ StopVideo \/ StopReady \/ StopCancel \/ StopFlush
           \/ Complete \/ Callback \/ UNCHANGED vars
  <2>1. UNCHANGED <<frames, session>>
    BY <1>8 DEF Qbuf, Streamon, Streamoff, StartFailed, SetupHardware, StartReady, SubmitUrb,
       StartDone, ErrorReady, ErrorDrain, ReturnReady, KillUrb, StopVideo, StopReady,
       StopCancel, StopFlush, StopReturnBuffers, Complete, Callback, CbPush, CbQueueWork,
       CbRetest, CbSubmit, ioVars, bufVars, vars
  <2> QED  BY <1>1, <2>1
<1> QED  BY <1>4, <1>5, <1>6, <1>7, <1>8 DEF Next, Ioctl, StartStop

LEMMA CleanStep == ~SubmissionFails /\ CleanInv /\ [Next]_vars => CleanInv'
<1> SUFFICES ASSUME ~SubmissionFails, CleanInv, [Next]_vars PROVE CleanInv'
  OBVIOUS
<1>1. TypeInv /\ RefInv /\ DecodeInv /\ OrderInv /\ FramesClean /\ HaltInv
  BY DEF CleanInv, RefInv, OwnedInv
<1>2. TypeInv' /\ DecodeInv' /\ OrderInv'
  BY <1>1, TypeInvStep, DecodeStep, OrderStep
<1>3. RefInv'
  BY <1>1, OwnedStep, FrameStep DEF RefInv
<1>4. FramesClean'
  BY <1>1, FramesStep
<1> QED  BY <1>2, <1>3, <1>4 DEF CleanInv

\* A buffer returned as DONE holds packets of its own session, in the order the camera sent
\* them, from a start of image to an end of image: for any script, wherever packets are cut
\* and transfers lost, and any sizes.
THEOREM FramesAreClean ==
    ASSUME FailingSubmits \subseteq {0}
    PROVE  Spec => []FramesClean
<1>1. CleanInv /\ [Next]_vars => CleanInv'
  BY CleanStep, NoFailure
<1>2. CleanInv => FramesClean
  BY DEF CleanInv
<1> QED  BY <1>1, <1>2, CleanInit, PTL DEF Spec

-----------------------------------------------------------------------------
(***************************************************************************)
(* A stop heals.  After a submission has failed the worker may run while   *)
(* the next start resets the decoder, and what was said of ownership and   *)
(* of frames no longer holds; STREAMOFF of the stream so started puts the  *)
(* driver back where all of it holds again.                                *)
(***************************************************************************)
\* The worker's own variables are set only while it decodes; there is no frame without a
\* buffer to fill.
RestInv ==
    /\ work \in {"idle", "fetch"} => buf = <<>> /\ cur = 0
    /\ active_buf = None => payload = <<>>

LEMMA RestStep == RestInv /\ [Next]_vars => RestInv'
<1> SUFFICES ASSUME RestInv, [Next]_vars PROVE RestInv'
  OBVIOUS
<1>1. CASE UNCHANGED <<work, buf, cur, active_buf, payload>>
  BY <1>1 DEF RestInv
<1>2. CASE StartReset \/ StopFlush
  BY <1>2 DEF RestInv, StartReset, ResetTo, StopFlush, StopReturnBuffers
<1>3. CASE Worker
  <2>1. CASE WorkStart \/ WorkSkip \/ WorkPass
    BY <2>1 DEF RestInv, WorkStart, WorkSkip, WorkPass, InDecode, bufVars
  <2>2. CASE WorkFetch
    BY <2>2 DEF RestInv, WorkFetch, bufVars
  <2>3. CASE WorkReturn
    BY <2>3 DEF RestInv, WorkReturn, FinishWork, bufVars
  <2>4. CASE WorkBoundary
    BY <2>4 DEF RestInv, WorkBoundary, bufVars
  <2>5. CASE WorkPayload
    BY <2>5 DEF RestInv, WorkPayload
  <2> QED  BY <1>3, <2>1, <2>2, <2>3, <2>4, <2>5 DEF Worker
<1>4. CASE \/ Ioctl \/ StartFailed \/ StopReturned \/ SetupHardware \/ StartReady
           \/ SubmitUrb \/ StartDone \/ ErrorReady \/ ErrorDrain \/ KillUrb \/ StopVideo
           \/ StopReady \/ StopCancel \/ Complete \/ Callback \/ UNCHANGED vars
  <2>1. UNCHANGED <<work, buf, cur, active_buf, payload>>
    BY <1>4 DEF Ioctl, Qbuf, Dqbuf, Streamon, Streamoff, StartFailed, StopReturned,
       SetupHardware, StartReady, SubmitUrb, StartDone, ErrorReady, ErrorDrain, ReturnReady,
       KillUrb, StopVideo, StopReady, StopCancel, Complete, Callback, CbPush, CbQueueWork,
       CbRetest, CbSubmit, bufVars, workVars, vars
  <2> QED  BY <1>1, <2>1
<1> QED  BY <1>2, <1>3, <1>4 DEF Next, StartStop

\* Between a stop and the reset of the next start, the workspace may still hold units that
\* an unfinished start has mixed.
IsBetween == io = "start" \/ (~streaming /\ io \in {"idle", "stopped"})

\* All that the proofs of ownership, quiescence and frames rest on.
Restored ==
    /\ TypeInv /\ RefInv /\ DecodeInv /\ FramesClean
    /\ OrderInv \/ IsBetween

\* Between streams only the calls run.
LEMMA BetweenStep ==
    ASSUME TypeInv, RefInv, DecodeInv, FramesClean, IsBetween, [Next]_vars
    PROVE  FramesClean' /\ (OrderInv' \/ IsBetween')
<1>0. /\ HaltInv /\ IsQuiet
      /\ cb = Idle /\ in_flight = {} /\ fifo = <<>>
  BY DEF RefInv, OwnedInv, HaltInv, QuietInv, IsQuiet, IsBetween
<1>1. CASE \/ (\E b \in Buffers : Qbuf(b)) \/ Streamon \/ Streamoff \/ UNCHANGED vars
  <2>1. IsBetween'
    BY <1>1 DEF Qbuf, Streamon, Streamoff, IsBetween, vbVars, ioVars, vars
  <2>2. UNCHANGED <<frames, session>>
    BY <1>1 DEF Qbuf, Streamon, Streamoff, ioVars, bufVars, vars
  <2> QED  BY <2>1, <2>2 DEF FramesClean
<1>2. CASE StopReturned
  <2>1. IsBetween'
    BY <1>2 DEF StopReturned, IsBetween
  <2>2. frames' = [b \in Buffers |-> NoFrame]
    BY <1>2 DEF StopReturned
  <2> QED  BY <2>1, <2>2 DEF FramesClean, NoFrame
<1>3. CASE StartReset
  <2>1. cb' = Idle /\ workspace' = <<>> /\ fifo' = <<>> /\ payload' = <<>>
    BY <1>0, <1>3 DEF StartReset, ResetTo, urbVars
  <2>2. OrderInv'
    BY <2>1, OrderEmpty
  <2>3. io = "start" /\ UNCHANGED frames
    BY <1>3 DEF StartReset, ResetTo, Io
  <2>4. \A b \in Buffers : ~frames[b].ok
    BY <2>3 DEF RefInv, OwnedInv, QueuedInv, IsQuiet, FrameInv
  <2>5. FramesClean'
    BY <2>3, <2>4 DEF FramesClean
  <2> QED  BY <2>2, <2>5
<1>4. \A b \in Buffers : ~Dqbuf(b)
  BY DEF Dqbuf, IsBetween
<1>5. CASE Worker \/ Complete \/ Callback
  BY <1>0, <1>5, WorkerStreams
     DEF Complete, Callback, CbPush, CbQueueWork, CbRetest, CbSubmit, Idle
<1>6. CASE \/ StartFailed \/ SetupHardware \/ StartReady \/ SubmitUrb \/ StartDone
           \/ ErrorReady \/ ErrorDrain \/ KillUrb \/ StopVideo \/ StopReady \/ StopCancel
           \/ StopFlush
  BY <1>6 DEF StartFailed, SetupHardware, StartReady, SubmitUrb, StartDone, ErrorReady,
     ErrorDrain, ReturnReady, KillUrb, StopVideo, StopReady, StopCancel, StopFlush, Io,
     IsBetween
<1> QED  BY <1>1, <1>2, <1>3, <1>4, <1>5, <1>6 DEF Next, Ioctl, StartStop

LEMMA RestoredStep == ~SubmissionFails /\ Restored /\ [Next]_vars => Restored'
<1> SUFFICES ASSUME ~SubmissionFails, Restored, [Next]_vars PROVE Restored'
  OBVIOUS
<1>1. TypeInv /\ RefInv /\ DecodeInv /\ FramesClean /\ HaltInv
  BY DEF Restored, RefInv, OwnedInv
<1>2. TypeInv' /\ DecodeInv'
  BY <1>1, TypeInvStep, DecodeStep
<1>3. RefInv'
  BY <1>1, OwnedStep, FrameStep DEF RefInv
<1>4. CASE OrderInv
  BY <1>1, <1>2, <1>3, <1>4, CleanStep DEF CleanInv, Restored
<1>5. CASE IsBetween
  BY <1>1, <1>2, <1>3, <1>5, BetweenStep DEF Restored
<1> QED  BY <1>4, <1>5 DEF Restored

LEMMA Heals ==
    ASSUME TypeInv', DrainInv, RestInv, StopReturned, streaming
    PROVE  Restored'
<1>1. /\ io = "stopped" /\ io' = "idle" /\ streaming' = FALSE
      /\ queued_list' = <<>> /\ ready_queue' = ready_queue
      /\ buf_state' = [b \in Buffers |-> "user"]
      /\ frames' = [b \in Buffers |-> NoFrame]
      /\ UNCHANGED <<urb_sub, kill, active_buf, payload, in_flight, cb, fifo, pending, work,
                    buf, cur>>
  BY DEF StopReturned, urbVars, workVars
<1>2. /\ in_flight = {} /\ cb = Idle /\ ~pending /\ work = "idle" /\ fifo = <<>>
      /\ ready_queue = <<>> /\ active_buf = None /\ UrbInv
  BY <1>1 DEF DrainInv, StartInv, StoppedInv, IsIdleBus
<1>3. HaltInv'
  BY <1>1, <1>2 DEF HaltInv, UrbInv, StopInv, QuietInv, IsQuiet
<1>4. HeldInv' /\ QueuedInv'
  BY <1>1, <1>2, EmptyRange, BuffersAssumption DEF HeldInv, QueuedInv
<1>5. FrameInv' /\ FramesClean'
  BY <1>1 DEF FrameInv, FramesClean, NoFrame
<1>6. DecodeInv'
  BY <1>1, <1>2 DEF RestInv, DecodeInv
<1>7. IsBetween'
  BY <1>1 DEF IsBetween
<1> QED  BY <1>3, <1>4, <1>5, <1>6, <1>7 DEF Restored, RefInv, OwnedInv

\* Whatever has failed before, when the STREAMOFF of a started stream returns, the driver is
\* as after a session without failures (up_stop_streaming).
THEOREM StopRestores == Spec => [][StopReturned /\ streaming => Restored']_vars
<1> DEFINE Inv == TypeInv /\ DrainInv /\ RestInv
<1>1. Init => RestInv
  BY DEF Init, RestInv
<1>2. Init => Inv
  BY <1>1, InitTypeInv, DrainInit
<1>3. Inv /\ [Next]_vars => Inv'
  BY TypeInvStep, DrainStep, RestStep
<1>4. Inv /\ [Next]_vars => [StopReturned /\ streaming => Restored']_vars
  BY TypeInvStep, Heals
<1> HIDE DEF Inv
<1> QED  BY <1>2, <1>3, <1>4, PTL DEF Spec

\* And from there, until another submission fails, the buffers are owned exactly, a stop is
\* quiet and frames are clean, and to the application the driver is a capture device.
THEOREM RestoredServes ==
    Restored /\ [][Next]_vars /\ [][~SubmissionFails]_vars =>
        /\ [](OwnershipExact /\ StopQuiesces /\ FramesClean)
        /\ [][Capture!Next]_(Capture!vars)
<1>1. Restored => OwnershipExact /\ StopQuiesces /\ FramesClean
  BY OwnedOnce, OwnedQuiet DEF Restored, RefInv
<1>2. Restored /\ [Next]_vars /\ [~SubmissionFails]_vars => Restored'
  <2>1. vars' = vars => ~SubmissionFails
    BY DEF vars, ioVars, SubmissionFails
  <2> QED  BY <2>1, RestoredStep
<1>3. Restored /\ [Next]_vars => [Capture!Next]_(Capture!vars)
  BY RefNext DEF CaptureStep, Restored
<1> QED  BY <1>1, <1>2, <1>3, PTL
=============================================================================
