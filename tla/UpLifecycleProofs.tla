------------------------- MODULE UpLifecycleProofs --------------------------
(***************************************************************************)
(* Proofs about UpFormat and UpLifecycle.                                  *)
(*                                                                         *)
(* Of the formats: what the driver makes of any size that is asked for.    *)
(* Of the life of a camera, for any URBs, files and sizes asked for, and   *)
(* however the driver is taken from the camera: types, that who runs has   *)
(* what it uses, that only an URB submitted behind the kill is freed in    *)
(* flight, that nothing is left behind, and that the camera sends what     *)
(* G_FMT reports.                                                          *)
(***************************************************************************)
EXTENDS UpLifecycle, TLAPS

\* Before the driver is bound, and when probing has failed.
Before == {"probing", "error_urbs", "error_unreg_v4l2", "error_release_iap",
           "error_free_dev", "failed"}
\* The device is unregistered after these.
Registered == {"bound", "release_iap", "clear", "kill", "free", "cancel", "unregister"}
\* The URBs are allocated, and not all of them killed, in these.
Receiving == {"bound", "release_iap", "clear", "kill"}
Starting == {"setup", "auth", "video", "ready", "submit", "error", "error_kill"}
Stopping == {"stop", "stop_kill", "stop_cancel"}

\* The types, of the Boolean variables and of the others.
Bits ==
    /\ attached \in BOOLEAN /\ ep_enabled \in BOOLEAN /\ asleep \in BOOLEAN
    /\ registered \in BOOLEAN /\ streaming \in BOOLEAN
    /\ hw_active \in BOOLEAN /\ client_ready \in BOOLEAN
    /\ pending \in BOOLEAN /\ work \in BOOLEAN /\ late \in BOOLEAN
    /\ urb_buf \in [Urbs -> BOOLEAN]
Values ==
    /\ itf \in {"probing", "bound", "failed", "gone", "error_urbs", "error_unreg_v4l2",
               "error_release_iap", "error_free_dev", "release_iap", "clear", "kill",
               "free", "cancel", "unregister", "put", "reset"}
    /\ stage \in 1 .. 11 /\ kill \in 0 .. NumUrbs + 1
    /\ held \subseteq Resources
    /\ urb \in [Urbs -> {"none", "live", "freed"}]
    /\ v4l2_refs \in 0 .. 2
    /\ files \subseteq Files
    /\ owner \in Files \cup {NoFile} /\ closer \in Files \cup {NoFile}
    /\ io \in {"idle", "setup", "auth", "video", "ready", "submit", "error",
              "error_kill", "stop", "stop_kill", "stop_cancel"}
    /\ urb_sub \in 0 .. NumUrbs /\ io_kill \in 0 .. NumUrbs + 1 /\ io_urb \in 0 .. NumUrbs
    /\ in_flight \subseteq Urbs
    /\ cb \in {"none", "queue", "resubmit"} /\ cb_urb \in 0 .. NumUrbs
    /\ size \in up_enum_framesizes /\ hw_index \in 0 .. 3 /\ committed \in 0 .. 3

\* What is held at each stage of probing, of unwinding and of disconnecting.
HeldInv ==
    /\ itf = "probing" =>
           /\ "dev" \in held <=> stage > 1
           /\ "iap" \in held <=> stage > 2
           /\ "workspace" \in held <=> stage > 3
           /\ "wq" \in held <=> stage > 4
           /\ "fifo" \in held <=> stage > 5
           /\ "v4l2" \in held <=> stage > 7
           /\ "vdev" \notin held
    /\ itf \in {"error_urbs", "error_unreg_v4l2"} =>
           held = {"dev", "iap", "workspace", "wq", "fifo", "v4l2"}
    /\ itf = "error_release_iap" =>
           /\ {"dev", "iap"} \subseteq held
           /\ held \subseteq {"dev", "iap", "workspace", "wq", "fifo"}
    /\ itf = "error_free_dev" => held = {"dev"}
    /\ itf = "failed" => held = {}
    /\ itf \in {"bound", "release_iap"} => held \in {Resources, Resources \ {"iap"}}
    /\ itf \in {"clear", "kill", "free", "cancel"} => held = Resources \ {"iap"}
    /\ itf = "unregister" => held = Resources \ {"iap", "wq"}
    /\ itf = "put" => held \in {Resources \ {"iap", "wq"}, Resources \ {"iap", "wq", "vdev"}}
    /\ itf \in {"reset", "gone"} => held \in {Resources \ {"iap", "wq"}, {}}

\* Who has a reference to v4l2_dev.
RefsInv ==
    v4l2_refs = IF itf \in Before THEN (IF "v4l2" \in held THEN 1 ELSE 0)
                ELSE (IF itf \in {"reset", "gone"} THEN 0 ELSE 1)
                     + (IF "vdev" \in held THEN 1 ELSE 0)

\* Files need a registered device to be opened, and keep it until they are closed.
FilesInv ==
    /\ registered <=> itf \in Registered
    /\ files # {} => itf \notin Before /\ "vdev" \in held

\* Which URBs are allocated; one that is freed keeps no buffer.
UrbInv ==
    /\ itf = "probing" /\ stage < 10 => \A i \in Urbs : urb[i] = "none"
    /\ (itf = "probing" /\ stage = 11) \/ itf \in Receiving =>
           \A i \in Urbs : urb[i] = "live" /\ urb_buf[i]
    /\ itf = "probing" => \A i \in Urbs : urb[i] # "freed" /\ (urb[i] = "live" => urb_buf[i])
    /\ \A i \in Urbs : urb_buf[i] => urb[i] = "live"
    /\ itf = "free" => \A i \in Urbs : i < kill => urb[i] = "none"
    /\ itf \notin Receiving \cup {"probing", "error_urbs", "free"} =>
           \A i \in Urbs : urb[i] = "none"

\* What is killed stays so, unless an URB is submitted behind the kill.
FlightInv ==
    /\ cb = "none" <=> cb_urb = 0
    /\ itf \in Before => in_flight = {} /\ cb = "none" /\ ~late /\ ~pending /\ ~work
    /\ itf \in {"kill", "free"} => kill >= 1
    /\ ~late => \A i \in in_flight \cup ({cb_urb} \ {0}) : ~Killed(i)
    /\ ~late /\ pending => itf \in Receiving \cup {"free"}
    /\ ~late /\ work => itf \in Receiving \cup {"free", "cancel"}
    /\ asleep => itf = "bound" /\ io = "idle"

\* A call in progress is that of the file that has the buffers; the pointer it has read is
\* that of the URB it is at.
CallInv ==
    /\ owner # NoFile => owner \in files
    /\ io # "idle" \/ streaming => owner # NoFile
    /\ io \in Starting => ~streaming
    /\ closer # NoFile => io \in Stopping /\ closer = owner
    /\ io_urb # 0 => \/ io = "submit" /\ io_urb = urb_sub + 1
                     \/ io \in {"error_kill", "stop_kill"} /\ io_urb = io_kill

\* The mode that is sent for current_hw_index.
Mode == IF hw_index = 0 THEN UP_RES_480P ELSE hw_index

\* The camera is in that mode once it has been started, and as long as it is received.
FormatInv ==
    /\ [size |-> size, hw_index |-> Mode] \in SupportedResolutions
    /\ io \in {"auth", "video", "ready", "submit"} => committed = Mode
    /\ streaming /\ (in_flight # {} \/ cb # "none") => committed = Mode

IInv == /\ Bits /\ Values /\ HeldInv /\ RefsInv /\ FilesInv /\ UrbInv /\ FlightInv /\ CallInv
        /\ FormatInv

USE UrbsAssumption, FilesAssumption DEF Before, Registered, Receiving,
        Starting, Stopping, Urbs, usbVars, urbVars, bitVars, ioVars, vbVars,
        cbVars, workVars, fmtVars, devVars, itfVars, probeUnchanged,
        discUnchanged, fileUnchanged, dataUnchanged, sleepUnchanged,
        flightVars, Killed

-----------------------------------------------------------------------------
(* The formats.                                                            *)

\* A size that the driver enumerates is taken for itself, and has a frame rate.
THEOREM EnumeratedTaken ==
  \A s \in up_enum_framesizes :
      up_s_fmt_vid_cap(s).size = s /\ up_enum_frameintervals(s) # {}
BY DEF up_enum_framesizes, up_enum_frameintervals, up_s_fmt_vid_cap, Resolution,
      up_sizes, Size

\* Whatever size is asked for, the one that is taken is one the driver enumerates, in the
\* mode the user-space table has for it, and asking for what was taken changes nothing.
THEOREM TakenIsSupported ==
  ASSUME NEW w \in Nat, NEW h \in Nat
  PROVE  LET taken == up_s_fmt_vid_cap(Size(w, h))
         IN  /\ taken \in SupportedResolutions
             /\ taken.size \in up_enum_framesizes
             /\ up_s_fmt_vid_cap(taken.size) = taken
BY DEF up_enum_framesizes, up_s_fmt_vid_cap, Resolution, up_sizes, Size,
      SupportedResolutions, HD_720P, VGA_480P, LOW_240P

\* A program that asks the driver for a resolution gets it, and the driver sends the camera
\* what UsbCamera would, but for the hint.
THEOREM SameModeEitherWay ==
  ASSUME NEW target \in SupportedResolutions
  PROVE  LET taken == up_s_fmt_vid_cap(target.size)
         IN  /\ active_resolution(target, taken.size) = target
             /\ [up_set_hardware_resolution(taken.hw_index, 30) EXCEPT !.bmHint = 0]
                    = UsbCameraPayload(target)
BY DEF up_s_fmt_vid_cap, Resolution, Size, SupportedResolutions, HD_720P,
      VGA_480P, LOW_240P, active_resolution, up_set_hardware_resolution,
      UsbCameraPayload, Payload

\* The camera reads the interval that was meant, for any frame rate.
THEOREM IntervalSent ==
  ASSUME NEW frame_index \in Nat, NEW fps \in Nat
  PROVE  Decoded(up_set_hardware_resolution(frame_index, fps).dwFrameInterval)
             = FrameInterval(fps)
<1>1. FrameInterval(fps) \in Nat /\ FrameInterval(fps) < 16777216
  <2>1. CASE fps = 0
    BY <2>1, SMT DEF FrameInterval
  <2>2. CASE fps # 0
    BY <2>2, SMT DEF FrameInterval
  <2> QED BY <2>1, <2>2, SMT
<1>2. ASSUME NEW n \in Nat, n < 16777216
      PROVE  Decoded(LittleEndian(n)) = n
  <2>1. n \div 16777216 = 0
    BY <1>2, SMT
  <2>2. (n % 256) + 256 * ((n \div 256) % 256) + 65536 * ((n \div 65536) % 256) = n
    BY <1>2, SMTT(30)
  <2> QED BY <2>1, <2>2, SMT DEF Decoded, LittleEndian
<1> QED BY <1>1, <1>2, SMT DEF up_set_hardware_resolution, Payload

-----------------------------------------------------------------------------
(* The life of a camera, step by step.                                     *)

\* The stages of a probe, by their numbers.
LEMMA StageNames ==
  /\ Len(Stages) = 11
  /\ Stages[1] = "dev" /\ Stages[2] = "iap" /\ Stages[3] = "workspace"
  /\ Stages[4] = "wq" /\ Stages[5] = "fifo" /\ Stages[6] = "endpoints"
  /\ Stages[7] = "v4l2" /\ Stages[8] = "queue" /\ Stages[9] = "park"
  /\ Stages[10] = "urbs" /\ Stages[11] = "vdev"
BY DEF Stages

\* The two parts are the type invariant.
LEMMA TypesAreBitsAndValues == TypeOK <=> Bits /\ Values
<1>1. DOMAIN Stages = 1 .. 11 BY DEF Stages
<1> QED BY <1>1, Zenon DEF TypeOK, Bits, Values

\* What a stage adds to what is held.
LEMMA StageTakes ==
  /\ {"dev"} \cap Resources = {"dev"} /\ {"iap"} \cap Resources = {"iap"}
  /\ {"workspace"} \cap Resources = {"workspace"} /\ {"wq"} \cap Resources = {"wq"}
  /\ {"fifo"} \cap Resources = {"fifo"} /\ {"v4l2"} \cap Resources = {"v4l2"}
  /\ {"vdev"} \cap Resources = {"vdev"} /\ {"endpoints"} \cap Resources = {}
  /\ {"queue"} \cap Resources = {} /\ {"park"} \cap Resources = {}
BY DEF Resources

\* What a stage of probing does, stage by stage.
LEMMA ProbeStageEffect ==
  ASSUME Values, ProbeStage
  PROVE  /\ itf = "probing" /\ stage # 10
         /\ \/ /\ held' = held \cup (CASE stage = 1 -> {"dev"} [] stage = 2 -> {"iap"}
                                       [] stage = 3 -> {"workspace"} [] stage = 4 -> {"wq"}
                                       [] stage = 5 -> {"fifo"} [] stage = 7 -> {"v4l2"}
                                       [] stage = 11 -> {"vdev"} [] OTHER -> {})
               /\ stage' = IF stage = 11 THEN stage ELSE stage + 1
               /\ itf' = IF stage = 11 THEN "bound" ELSE itf
               /\ v4l2_refs' = IF stage \in {7, 11} THEN v4l2_refs + 1 ELSE v4l2_refs
               /\ registered' = (stage = 11)
            \/ /\ itf' = (CASE stage = 1 -> "failed" [] stage = 2 -> "error_free_dev"
                            [] stage \in 3 .. 7 -> "error_release_iap"
                            [] stage \in 8 .. 9 -> "error_unreg_v4l2"
                            [] stage = 11 -> "error_urbs")
               /\ UNCHANGED <<held, stage, v4l2_refs, registered>>
<1> USE StageNames, StageTakes
<1>1. stage \in 1 .. 11 BY DEF Values
<1>2. itf = "probing" /\ stage # 10 BY DEF ProbeStage
<1>3. CASE stage = 1 BY <1>2, <1>3 DEF ProbeStage, OnFailure
<1>4. CASE stage = 2 BY <1>2, <1>4 DEF ProbeStage, OnFailure
<1>5. CASE stage = 3 BY <1>2, <1>5 DEF ProbeStage, OnFailure
<1>6. CASE stage = 4 BY <1>2, <1>6 DEF ProbeStage, OnFailure
<1>7. CASE stage = 5 BY <1>2, <1>7 DEF ProbeStage, OnFailure
<1>8. CASE stage = 6 BY <1>2, <1>8 DEF ProbeStage, OnFailure
<1>9. CASE stage = 7 BY <1>2, <1>9 DEF ProbeStage, OnFailure
<1>10. CASE stage = 8 BY <1>2, <1>10 DEF ProbeStage, OnFailure
<1>11. CASE stage = 9 BY <1>2, <1>11 DEF ProbeStage, OnFailure
<1>12. CASE stage = 11 BY <1>2, <1>12 DEF ProbeStage, OnFailure
<1> QED BY <1>1, <1>2, <1>3, <1>4, <1>5, <1>6, <1>7, <1>8, <1>9, <1>10, <1>11, <1>12

\* A stage adds what it takes, or goes to the label that releases what was taken before.
LEMMA ProbeStageStep ==
  ASSUME IInv, ProbeStage
  PROVE  IInv'
<1>1. Bits'
  BY StageNames DEF IInv, Bits, ProbeStage, OnFailure, Resources
<1>2. Values'
  BY ProbeStageEffect, SMTT(60) DEF IInv, Values, ProbeStage, Resources, RefsInv
<1>3. HeldInv'
  <2>1. itf = "probing" /\ stage \in 1 .. 11 /\ stage # 10
    BY ProbeStageEffect DEF IInv, Values
  <2>2. CASE itf' = "probing"
    BY <2>1, <2>2, ProbeStageEffect DEF IInv, HeldInv, Resources
  <2>3. CASE itf' = "bound"
    <3>1. stage = 11 /\ held' = held \cup {"vdev"}
      BY <2>1, <2>3, ProbeStageEffect DEF IInv
    <3>2. {"dev", "iap", "workspace", "wq", "fifo", "v4l2"} \subseteq held
      BY <2>1, <3>1 DEF IInv, HeldInv
    <3>3. held' = Resources
      BY <3>1, <3>2 DEF IInv, Values, Resources
    <3> QED BY <2>3, <3>3 DEF HeldInv
  <2>4. CASE itf' \notin {"probing", "bound"}
    <3>1. UNCHANGED held
      BY <2>1, <2>4, ProbeStageEffect DEF IInv
    <3>2. \/ stage = 1 /\ itf' = "failed"
          \/ stage = 2 /\ itf' = "error_free_dev"
          \/ stage \in 3 .. 7 /\ itf' = "error_release_iap"
          \/ stage \in 8 .. 9 /\ itf' = "error_unreg_v4l2"
          \/ stage = 11 /\ itf' = "error_urbs"
      BY <2>1, <2>4, ProbeStageEffect DEF IInv
    <3>3. held \subseteq Resources BY DEF IInv, Values
    <3>4. /\ stage = 1 => held = {}
          /\ stage = 2 => held = {"dev"}
          /\ stage \in 3 .. 7 => /\ {"dev", "iap"} \subseteq held
                                 /\ held \subseteq {"dev", "iap", "workspace", "wq", "fifo"}
          /\ stage \in {8, 9, 11} => held = {"dev", "iap", "workspace", "wq", "fifo", "v4l2"}
      <4>1. /\ ("dev" \in held <=> stage > 1) /\ ("iap" \in held <=> stage > 2)
            /\ ("workspace" \in held <=> stage > 3) /\ ("wq" \in held <=> stage > 4)
            /\ ("fifo" \in held <=> stage > 5) /\ ("v4l2" \in held <=> stage > 7)
            /\ "vdev" \notin held
        BY <2>1 DEF IInv, HeldInv
      <4>2. ASSUME stage = 1 PROVE held = {}
        <5>1. \A x \in Resources : x \notin held BY <4>1, <4>2 DEF Resources
        <5> QED BY <3>3, <5>1
      <4>3. ASSUME stage = 2 PROVE held = {"dev"}
        <5>1. "dev" \in held /\ \A x \in Resources : x = "dev" \/ x \notin held
          BY <4>1, <4>3 DEF Resources
        <5> QED BY <3>3, <5>1
      <4>4. stage \in 3 .. 7 => /\ {"dev", "iap"} \subseteq held
                                /\ "v4l2" \notin held /\ "vdev" \notin held
        BY <4>1
      <4>5. stage \in 3 .. 7 => held \subseteq {"dev", "iap", "workspace", "wq", "fifo"}
        BY <3>3, <4>4 DEF Resources
      <4>6. stage \in {8, 9, 11} =>
                {"dev", "iap", "workspace", "wq", "fifo", "v4l2"} \subseteq held
        BY <4>1
      <4>7. stage \in {8, 9, 11} => held = {"dev", "iap", "workspace", "wq", "fifo", "v4l2"}
        BY <3>3, <4>1, <4>6 DEF Resources
      <4> QED BY <4>2, <4>3, <4>4, <4>5, <4>7
    <3> QED BY <2>1, <3>1, <3>2, <3>4 DEF HeldInv
  <2> QED BY <2>2, <2>3, <2>4
<1>4. RefsInv'
  <2>1. itf = "probing" /\ stage \in 1 .. 11 /\ stage # 10
    BY ProbeStageEffect DEF IInv, Values
  <2>2. /\ v4l2_refs = (IF "v4l2" \in held THEN 1 ELSE 0) /\ ("v4l2" \in held <=> stage > 7)
        /\ "vdev" \notin held
    BY <2>1 DEF IInv, RefsInv, HeldInv
  <2>3. CASE stage = 7
    BY <2>1, <2>2, <2>3, ProbeStageEffect DEF IInv, RefsInv
  <2>4. CASE stage = 11
    BY <2>1, <2>2, <2>4, ProbeStageEffect DEF IInv, RefsInv
  <2>5. CASE stage \notin {7, 11}
    <3>1. v4l2_refs' = v4l2_refs /\ itf' \in Before /\ ("v4l2" \in held' <=> "v4l2" \in held)
      BY <2>1, <2>5, ProbeStageEffect DEF IInv
    <3> QED BY <2>2, <3>1 DEF RefsInv
  <2> QED BY <2>3, <2>4, <2>5
<1>5. FilesInv'
  <2>1. stage \in 1 .. 11 BY DEF IInv, Values
  <2>2. ~registered /\ itf = "probing" /\ files' = {}
    BY ProbeStageEffect DEF IInv, FilesInv, ProbeStage
  <2>3. CASE itf' \in Registered
    <3>1. itf' = "bound" /\ registered' = (stage = 11) /\ stage = 11
      BY <2>1, <2>2, <2>3, ProbeStageEffect DEF IInv
    <3> QED BY <2>2, <3>1 DEF FilesInv
  <2>4. CASE itf' \notin Registered
    <3>1. ~registered' BY <2>1, <2>2, <2>4, ProbeStageEffect DEF IInv
    <3> QED BY <2>2, <2>4, <3>1 DEF FilesInv
  <2> QED BY <2>3, <2>4
<1>6. UrbInv'
  <2>1. itf = "probing" /\ stage \in 1 .. 11 /\ stage # 10 /\ UNCHANGED urbVars
    BY ProbeStageEffect DEF IInv, Values, ProbeStage
  <2>2. CASE itf' = "probing"
    <3>1. stage' \in {stage, stage + 1} /\ stage < 10
      BY <2>1, <2>2, ProbeStageEffect DEF IInv
    <3> QED BY <2>1, <2>2, <3>1 DEF IInv, UrbInv
  <2>3. CASE itf' = "bound"
    <3>1. stage = 11 BY <2>1, <2>3, ProbeStageEffect DEF IInv
    <3> QED BY <2>1, <2>3, <3>1 DEF IInv, UrbInv
  <2>4. CASE itf' \notin {"probing", "bound"}
    <3>1. /\ itf' \in {"failed", "error_free_dev", "error_release_iap", "error_unreg_v4l2",
                       "error_urbs"}
          /\ itf' = "error_urbs" \/ stage < 10
      BY <2>1, <2>4, ProbeStageEffect DEF IInv
    <3> QED BY <2>1, <3>1 DEF IInv, UrbInv
  <2> QED BY <2>2, <2>3, <2>4
<1>7. FlightInv'
  BY StageNames DEF IInv, FlightInv, Values, ProbeStage, OnFailure, Resources
<1>8. CallInv' /\ FormatInv'
  BY DEF IInv, CallInv, FormatInv, Mode, ProbeStage
<1> QED BY <1>1, <1>2, <1>3, <1>4, <1>5, <1>6, <1>7, <1>8 DEF IInv

\* The URBs are allocated in their order.
LEMMA AllocUrbStep ==
  ASSUME IInv, AllocUrb
  PROVE  IInv'
<1>1. Bits'
  BY StageNames, ZenonT(60) DEF IInv, Bits, AllocUrb
<1>2. Values'
  BY StageNames, SMTT(60) DEF IInv, Values, AllocUrb
<1>3. HeldInv'
  <2>1. /\ stage = 10 /\ stage' \in {10, 11} /\ held' = held
        /\ itf = "probing" /\ itf' \in {"probing", "error_urbs"}
    BY StageNames DEF IInv, Values, AllocUrb
  <2>2. CASE itf' = "probing" BY <2>1, <2>2 DEF IInv, HeldInv
  <2>3. CASE itf' = "error_urbs"
    <3>1. {"dev", "iap", "workspace", "wq", "fifo", "v4l2"} \subseteq held /\ "vdev" \notin held
      BY <2>1, SMT DEF IInv, HeldInv
    <3>2. held = {"dev", "iap", "workspace", "wq", "fifo", "v4l2"}
      BY <3>1 DEF IInv, Values, Resources
    <3> QED BY <2>1, <2>3, <3>2 DEF HeldInv
  <2> QED BY <2>1, <2>2, <2>3
<1>4. RefsInv'
  BY StageNames DEF IInv, RefsInv, AllocUrb
<1>5. FilesInv'
  BY StageNames DEF IInv, FilesInv, AllocUrb
<1>6. UrbInv'
  <2>1. /\ stage = 10 /\ stage' \in {10, 11} /\ held' = held
        /\ itf = "probing" /\ itf' \in {"probing", "error_urbs"}
    BY StageNames DEF IInv, Values, AllocUrb
  <2>2. PICK i \in Urbs :
            /\ \A j \in Urbs : j < i <=> urb[j] = "live"
            /\ \/ /\ urb' = [urb EXCEPT ![i] = "live"]
                  /\ urb_buf' = [urb_buf EXCEPT ![i] = TRUE]
                  /\ stage' = IF i = NumUrbs THEN stage + 1 ELSE stage
                  /\ UNCHANGED itf
               \/ /\ urb' \in {urb, [urb EXCEPT ![i] = "live"]}
                  /\ itf' = "error_urbs"
                  /\ UNCHANGED <<urb_buf, stage>>
    BY DEF AllocUrb
  <2>3. /\ urb \in [Urbs -> {"none", "live", "freed"}] /\ urb_buf \in [Urbs -> BOOLEAN]
        /\ \A j \in Urbs : urb[j] # "freed" /\ (urb[j] = "live" => urb_buf[j])
        /\ \A j \in Urbs : urb_buf[j] => urb[j] = "live"
    BY <2>1 DEF IInv, Values, Bits, UrbInv
  <2>4. CASE itf' = "error_urbs"
    <3>1. \A j \in Urbs : urb_buf'[j] => urb'[j] = "live" BY <2>2, <2>3, <2>4
    <3> QED BY <2>4, <3>1 DEF UrbInv
  <2>5. CASE itf' = "probing"
    <3>1. /\ urb' = [urb EXCEPT ![i] = "live"] /\ urb_buf' = [urb_buf EXCEPT ![i] = TRUE]
          /\ stage' = IF i = NumUrbs THEN stage + 1 ELSE stage
      BY <2>2, <2>5
    <3>2. \A j \in Urbs : urb'[j] # "freed" /\ (urb'[j] = "live" => urb_buf'[j])
      BY <2>3, <3>1
    <3>3. \A j \in Urbs : urb_buf'[j] => urb'[j] = "live" BY <2>3, <3>1
    <3>4. stage' = 11 => \A j \in Urbs : urb'[j] = "live"
      <4>1. HAVE stage' = 11
      <4>2. TAKE j \in Urbs
      <4>3. i = NumUrbs BY <2>1, <3>1, <4>1
      <4>4. j < i \/ j = i BY <4>3
      <4> QED BY <2>2, <2>3, <3>1, <4>4
    <3> QED BY <2>1, <2>5, <3>2, <3>3, <3>4 DEF UrbInv
  <2> QED BY <2>1, <2>4, <2>5
<1>7. FlightInv'
  BY StageNames DEF IInv, FlightInv, AllocUrb
<1>8. CallInv' /\ FormatInv'
  BY DEF IInv, CallInv, FormatInv, Mode, AllocUrb
<1> QED BY <1>1, <1>2, <1>3, <1>4, <1>5, <1>6, <1>7, <1>8 DEF IInv

\* No URB is left.
LEMMA ErrorUrbsStep ==
  ASSUME IInv, ErrorUrbs
  PROVE  IInv'
<1>1. Bits'
  BY DEF IInv, Bits, ErrorUrbs, Unwind
<1>2. Values'
  BY DEF IInv, Values, ErrorUrbs, Unwind
<1>3. HeldInv'
  BY DEF IInv, HeldInv, Stages, Resources, ErrorUrbs, Unwind
<1>4. RefsInv'
  BY DEF IInv, RefsInv, ErrorUrbs, Unwind
<1>5. FilesInv'
  BY DEF IInv, FilesInv, ErrorUrbs, Unwind
<1>6. UrbInv'
  BY DEF IInv, UrbInv, ErrorUrbs, Unwind
<1>7. FlightInv'
  BY DEF IInv, FlightInv, ErrorUrbs, Unwind
<1>8. CallInv' /\ FormatInv'
  BY DEF IInv, CallInv, FormatInv, Mode, ErrorUrbs, Unwind
<1> QED BY <1>1, <1>2, <1>3, <1>4, <1>5, <1>6, <1>7, <1>8 DEF IInv

\* v4l2_dev is released while nobody else refers to it.
LEMMA ErrorUnregV4l2Step ==
  ASSUME IInv, ErrorUnregV4l2
  PROVE  IInv'
<1>1. Values'
  BY DEF IInv, Values, ErrorUnregV4l2, Unwind
<1>2. HeldInv'
  BY DEF IInv, HeldInv, Stages, Resources, ErrorUnregV4l2, Unwind
<1>3. RefsInv'
  BY DEF IInv, RefsInv, ErrorUnregV4l2, Unwind
<1>4. FilesInv'
  BY DEF IInv, FilesInv, ErrorUnregV4l2, Unwind
<1>5. UrbInv'
  BY DEF IInv, UrbInv, ErrorUnregV4l2, Unwind
<1>6. FlightInv'
  BY DEF IInv, FlightInv, ErrorUnregV4l2, Unwind
<1>7. Bits' /\ CallInv' /\ FormatInv'
  BY DEF IInv, Bits, CallInv, FormatInv, Mode, ErrorUnregV4l2, Unwind
<1> QED BY <1>1, <1>2, <1>3, <1>4, <1>5, <1>6, <1>7 DEF IInv

\* Nothing is left but drv_data.
LEMMA ErrorReleaseIapStep ==
  ASSUME IInv, ErrorReleaseIap
  PROVE  IInv'
<1>1. Values'
  BY DEF IInv, Values, ErrorReleaseIap, Unwind
<1>2. HeldInv'
  BY DEF IInv, HeldInv, Stages, Resources, ErrorReleaseIap, Unwind
<1>3. RefsInv'
  BY DEF IInv, RefsInv, ErrorReleaseIap, Unwind
<1>4. FilesInv'
  BY DEF IInv, FilesInv, ErrorReleaseIap, Unwind
<1>5. UrbInv'
  BY DEF IInv, UrbInv, ErrorReleaseIap, Unwind
<1>6. FlightInv'
  BY DEF IInv, FlightInv, ErrorReleaseIap, Unwind
<1>7. Bits' /\ CallInv' /\ FormatInv'
  BY DEF IInv, Bits, CallInv, FormatInv, Mode, ErrorReleaseIap, Unwind
<1> QED BY <1>1, <1>2, <1>3, <1>4, <1>5, <1>6, <1>7 DEF IInv

\* Nothing is left.
LEMMA ErrorFreeDevStep ==
  ASSUME IInv, ErrorFreeDev
  PROVE  IInv'
<1>1. Values'
  BY DEF IInv, Values, ErrorFreeDev, Unwind
<1>2. HeldInv'
  BY DEF IInv, HeldInv, Stages, Resources, ErrorFreeDev, Unwind
<1>3. RefsInv'
  BY DEF IInv, RefsInv, ErrorFreeDev, Unwind
<1>4. FilesInv'
  BY DEF IInv, FilesInv, ErrorFreeDev, Unwind
<1>5. UrbInv'
  BY DEF IInv, UrbInv, ErrorFreeDev, Unwind
<1>6. FlightInv'
  BY DEF IInv, FlightInv, ErrorFreeDev, Unwind
<1>7. Bits' /\ CallInv' /\ FormatInv'
  BY DEF IInv, Bits, CallInv, FormatInv, Mode, ErrorFreeDev, Unwind
<1> QED BY <1>1, <1>2, <1>3, <1>4, <1>5, <1>6, <1>7 DEF IInv

\* The iAP interface goes by itself.
LEMMA DetachIapStep ==
  ASSUME IInv, DetachIap
  PROVE  IInv'
<1>1. Values'
  BY DEF IInv, Values, DetachIap
<1>2. HeldInv'
  BY DEF IInv, HeldInv, Resources, DetachIap
<1>3. RefsInv'
  BY DEF IInv, RefsInv, DetachIap
<1>4. FilesInv'
  BY DEF IInv, FilesInv, DetachIap
<1>5. UrbInv' /\ FlightInv'
  BY DEF IInv, UrbInv, FlightInv, DetachIap
<1>6. Bits' /\ CallInv' /\ FormatInv'
  BY DEF IInv, Bits, CallInv, FormatInv, Mode, DetachIap
<1> QED BY <1>1, <1>2, <1>3, <1>4, <1>5, <1>6 DEF IInv

\* A disconnect begins, whether or not the camera has gone.
LEMMA DisconnectStep ==
  ASSUME IInv, Disconnect
  PROVE  IInv'
<1>1. Bits'
  BY DEF IInv, Bits, Disconnect, Disconnecting
<1>2. Values'
  BY DEF IInv, Values, Disconnect, Disconnecting
<1>3. HeldInv'
  BY DEF IInv, HeldInv, Stages, Resources, Disconnect, Disconnecting
<1>4. RefsInv'
  BY DEF IInv, RefsInv, Disconnect, Disconnecting
<1>5. FilesInv'
  BY DEF IInv, FilesInv, Disconnect, Disconnecting
<1>6. UrbInv'
  BY DEF IInv, UrbInv, Disconnect, Disconnecting
<1>7. FlightInv'
  BY DEF IInv, FlightInv, Disconnect, Disconnecting
<1>8. CallInv' /\ FormatInv'
  BY DEF IInv, CallInv, FormatInv, Mode, Disconnect, Disconnecting
<1> QED BY <1>1, <1>2, <1>3, <1>4, <1>5, <1>6, <1>7, <1>8 DEF IInv

\* The interface goes first.
LEMMA DiscReleaseIapStep ==
  ASSUME IInv, DiscReleaseIap
  PROVE  IInv'
<1>1. Values'
  BY DEF IInv, Values, DiscReleaseIap, Disconnecting
<1>2. HeldInv'
  BY DEF IInv, HeldInv, Stages, Resources, DiscReleaseIap, Disconnecting
<1>3. RefsInv'
  BY DEF IInv, RefsInv, DiscReleaseIap, Disconnecting
<1>4. FilesInv'
  BY DEF IInv, FilesInv, DiscReleaseIap, Disconnecting
<1>5. UrbInv'
  BY DEF IInv, UrbInv, DiscReleaseIap, Disconnecting
<1>6. FlightInv'
  BY DEF IInv, FlightInv, DiscReleaseIap, Disconnecting
<1>7. Bits' /\ CallInv' /\ FormatInv'
  BY DEF IInv, Bits, CallInv, FormatInv, Mode, DiscReleaseIap, Disconnecting
<1> QED BY <1>1, <1>2, <1>3, <1>4, <1>5, <1>6, <1>7 DEF IInv

\* No URB is killed yet.
LEMMA DiscClearStep ==
  ASSUME IInv, DiscClear
  PROVE  IInv'
<1>1. Bits'
  BY DEF IInv, Bits, DiscClear, Disconnecting
<1>2. Values'
  BY DEF IInv, Values, DiscClear, Disconnecting
<1>3. HeldInv'
  BY DEF IInv, HeldInv, Stages, Resources, DiscClear, Disconnecting
<1>4. RefsInv'
  BY DEF IInv, RefsInv, DiscClear, Disconnecting
<1>5. FilesInv'
  BY DEF IInv, FilesInv, DiscClear, Disconnecting
<1>6. UrbInv'
  BY DEF IInv, UrbInv, DiscClear, Disconnecting
<1>7. FlightInv'
  BY DEF IInv, FlightInv, Values, DiscClear, Disconnecting
<1>8. CallInv' /\ FormatInv'
  BY DEF IInv, CallInv, FormatInv, Mode, DiscClear, Disconnecting
<1> QED BY <1>1, <1>2, <1>3, <1>4, <1>5, <1>6, <1>7, <1>8 DEF IInv

\* The URB that is killed is taken back.
LEMMA DiscKillStep ==
  ASSUME IInv, DiscKill
  PROVE  IInv'
<1>1. Values'
  <2>1. CASE kill <= NumUrbs
    <3>1. /\ itf = "kill" /\ itf' = itf /\ cb_urb # kill
          /\ in_flight' = in_flight \ {kill} /\ kill' = kill + 1
      BY <2>1 DEF DiscKill, IInv, Values
    <3> QED BY <2>1, <3>1 DEF DiscKill, IInv, Values
  <2>2. CASE ~(kill <= NumUrbs)
    <3>1. itf = "kill" /\ itf' = "free" /\ in_flight' = in_flight /\ kill' = 1
      BY <2>2 DEF DiscKill, Disconnecting, IInv, Values
    <3> QED BY <2>2, <3>1 DEF DiscKill, IInv, Values
  <2> QED BY <2>1, <2>2
<1>2. HeldInv'
  BY DEF IInv, HeldInv, Stages, Resources, DiscKill, Disconnecting
<1>3. RefsInv'
  BY DEF IInv, RefsInv, DiscKill, Disconnecting
<1>4. FilesInv'
  BY DEF IInv, FilesInv, DiscKill, Disconnecting
<1>5. UrbInv'
  BY DEF IInv, UrbInv, DiscKill, Disconnecting
<1>6. FlightInv'
  <2>1. CASE kill <= NumUrbs
    <3>1. /\ itf = "kill" /\ itf' = itf /\ cb_urb # kill
          /\ in_flight' = in_flight \ {kill} /\ kill' = kill + 1
      BY <2>1 DEF DiscKill, IInv, Values
    <3> QED BY <2>1, <3>1 DEF DiscKill, IInv, Values, FlightInv
  <2>2. CASE ~(kill <= NumUrbs)
    <3>1. itf = "kill" /\ itf' = "free" /\ in_flight' = in_flight /\ kill' = 1
      BY <2>2 DEF DiscKill, Disconnecting, IInv, Values
    <3>2. ~late => in_flight = {} /\ cb_urb = 0 BY <2>2, <3>1 DEF IInv, Values, FlightInv
    <3> QED BY <2>2, <3>1, <3>2 DEF DiscKill, IInv, Values, FlightInv
  <2> QED BY <2>1, <2>2
<1>7. FormatInv'
  BY DEF IInv, FormatInv, Mode, SupportedResolutions, HD_720P, VGA_480P,
        LOW_240P, UP_RES_480P, UP_RES_240P, UP_RES_720P, Size, DiscKill,
        Disconnecting
<1>8. Bits' /\ CallInv'
  BY DEF IInv, Bits, CallInv, DiscKill, Disconnecting
<1> QED BY <1>1, <1>2, <1>3, <1>4, <1>5, <1>6, <1>7, <1>8 DEF IInv

\* An URB is freed, or its pointer set to NULL.
LEMMA DiscFreeStep ==
  ASSUME IInv, DiscFree
  PROVE  IInv'
<1>1. Bits'
  BY DEF IInv, Bits, DiscFree
<1>2. Values'
  BY DEF IInv, Values, DiscFree
<1>3. UrbInv'
  <2>1. /\ itf = "free" /\ itf' = "free" /\ kill \in Urbs
        /\ urb \in [Urbs -> {"none", "live", "freed"}] /\ urb_buf \in [Urbs -> BOOLEAN]
        /\ \A i \in Urbs : urb_buf[i] => urb[i] = "live"
        /\ \A i \in Urbs : i < kill => urb[i] = "none"
    BY DEF IInv, Bits, Values, UrbInv, FlightInv, DiscFree
  <2>2. CASE /\ urb' = [urb EXCEPT ![kill] = "freed"]
             /\ urb_buf' = [urb_buf EXCEPT ![kill] = FALSE] /\ kill' = kill
    <3>1. \A i \in Urbs : urb_buf'[i] => urb'[i] = "live" BY <2>1, <2>2
    <3>2. \A i \in Urbs : i < kill' => urb'[i] = "none" BY <2>1, <2>2
    <3> QED BY <2>1, <3>1, <3>2 DEF UrbInv
  <2>3. CASE /\ urb[kill] = "freed" /\ urb' = [urb EXCEPT ![kill] = "none"]
             /\ kill' = kill + 1 /\ urb_buf' = urb_buf
    <3>1. \A i \in Urbs : urb_buf'[i] => urb'[i] = "live" BY <2>1, <2>3
    <3>2. \A i \in Urbs : i < kill' => urb'[i] = "none" BY <2>1, <2>3
    <3> QED BY <2>1, <3>1, <3>2 DEF UrbInv
  <2> QED BY <2>2, <2>3 DEF DiscFree
<1>4. FlightInv'
  BY DEF IInv, FlightInv, Values, DiscFree
<1>5. HeldInv' /\ RefsInv' /\ FilesInv' /\ CallInv' /\ FormatInv'
  BY DEF IInv, HeldInv, RefsInv, FilesInv, CallInv, FormatInv, Mode, DiscFree
<1> QED BY <1>1, <1>2, <1>3, <1>4, <1>5 DEF IInv

\* The work is taken off the queue.
LEMMA DiscCancelWorkStep ==
  ASSUME IInv, DiscCancelWork
  PROVE  IInv'
<1>1. Bits'
  BY DEF IInv, Bits, DiscCancelWork, Disconnecting
<1>2. Values'
  BY DEF IInv, Values, DiscCancelWork, Disconnecting
<1>3. HeldInv' /\ RefsInv' /\ FilesInv'
  BY DEF IInv, HeldInv, RefsInv, FilesInv, DiscCancelWork, Disconnecting
<1>4. UrbInv'
  BY DEF IInv, UrbInv, Values, DiscCancelWork, Disconnecting
<1>5. FlightInv'
  BY DEF IInv, FlightInv, DiscCancelWork, Disconnecting
<1>6. CallInv' /\ FormatInv'
  BY DEF IInv, CallInv, FormatInv, Mode, DiscCancelWork, Disconnecting
<1> QED BY <1>1, <1>2, <1>3, <1>4, <1>5, <1>6 DEF IInv

\* The worker is done.
LEMMA DiscDestroyWqStep ==
  ASSUME IInv, DiscDestroyWq
  PROVE  IInv'
<1>1. Values'
  BY DEF IInv, Values, DiscDestroyWq, Disconnecting
<1>2. HeldInv'
  BY DEF IInv, HeldInv, Resources, DiscDestroyWq, Disconnecting
<1>3. RefsInv' /\ FilesInv'
  BY DEF IInv, RefsInv, FilesInv, DiscDestroyWq, Disconnecting
<1>4. UrbInv'
  BY DEF IInv, UrbInv, DiscDestroyWq, Disconnecting
<1>5. FlightInv'
  BY DEF IInv, FlightInv, DiscDestroyWq, Disconnecting
<1>6. Bits' /\ CallInv' /\ FormatInv'
  BY DEF IInv, Bits, CallInv, FormatInv, Mode, DiscDestroyWq, Disconnecting
<1> QED BY <1>1, <1>2, <1>3, <1>4, <1>5, <1>6 DEF IInv

\* Files may be open still.
LEMMA DiscUnregisterStep ==
  ASSUME IInv, DiscUnregister
  PROVE  IInv'
<1>1. Bits'
  BY DEF IInv, Bits, DiscUnregister, Disconnecting
<1>2. Values'
  BY DEF IInv, Values, DiscUnregister, Disconnecting
<1>3. HeldInv'
  BY DEF IInv, HeldInv, Stages, Resources, DiscUnregister, Disconnecting
<1>4. RefsInv'
  BY DEF IInv, RefsInv, DiscUnregister, Disconnecting
<1>5. FilesInv'
  BY DEF IInv, FilesInv, DiscUnregister, Disconnecting
<1>6. UrbInv'
  BY DEF IInv, UrbInv, DiscUnregister, Disconnecting
<1>7. FlightInv'
  BY DEF IInv, FlightInv, DiscUnregister, Disconnecting
<1>8. CallInv' /\ FormatInv'
  BY DEF IInv, CallInv, FormatInv, Mode, DiscUnregister, Disconnecting
<1> QED BY <1>1, <1>2, <1>3, <1>4, <1>5, <1>6, <1>7, <1>8 DEF IInv

\* The device is released if no file is open.
LEMMA DiscPutStep ==
  ASSUME IInv, DiscPut
  PROVE  IInv'
<1>1. Values'
  BY DEF IInv, Values, HeldInv, Stages, Resources, RefsInv, FilesInv,
        DiscPut, Put, ReleasedWithDevice, Disconnecting
<1>2. HeldInv'
  BY DEF IInv, HeldInv, Stages, Resources, Values, RefsInv, FilesInv,
        DiscPut, Put, ReleasedWithDevice, Disconnecting
<1>3. RefsInv'
  BY DEF IInv, RefsInv, DiscPut, Put, ReleasedWithDevice, Disconnecting
<1>4. FilesInv'
  BY DEF IInv, FilesInv, DiscPut, Put, ReleasedWithDevice, Disconnecting
<1>5. UrbInv'
  BY DEF IInv, UrbInv, DiscPut, Put, ReleasedWithDevice, Disconnecting
<1>6. FlightInv'
  BY DEF IInv, FlightInv, DiscPut, Put, ReleasedWithDevice, Disconnecting
<1>7. Bits' /\ CallInv' /\ FormatInv'
  BY DEF IInv, Bits, CallInv, FormatInv, Mode, DiscPut, Put, Disconnecting
<1> QED BY <1>1, <1>2, <1>3, <1>4, <1>5, <1>6, <1>7 DEF IInv

\* The endpoints take no transfer again.
LEMMA DiscResetStep ==
  ASSUME IInv, DiscReset
  PROVE  IInv'
<1>1. Bits'
  BY DEF IInv, Bits, DiscReset, Disconnecting
<1>2. Values'
  BY DEF IInv, Values, DiscReset, Disconnecting
<1>3. HeldInv' /\ RefsInv' /\ FilesInv'
  BY DEF IInv, HeldInv, RefsInv, FilesInv, DiscReset, Disconnecting
<1>4. UrbInv'
  BY DEF IInv, UrbInv, DiscReset, Disconnecting
<1>5. FlightInv'
  BY DEF IInv, FlightInv, DiscReset, Disconnecting
<1>6. CallInv' /\ FormatInv'
  BY DEF IInv, CallInv, FormatInv, Mode, DiscReset, Disconnecting
<1> QED BY <1>1, <1>2, <1>3, <1>4, <1>5, <1>6 DEF IInv

\* The device is released if the disconnect is over.
LEMMA VdevReleaseStep ==
  ASSUME IInv, VdevRelease
  PROVE  IInv'
<1>1. Values'
  BY DEF IInv, Values, HeldInv, Stages, Resources, RefsInv, FilesInv,
        VdevRelease, Put, ReleasedWithDevice
<1>2. HeldInv'
  BY DEF IInv, HeldInv, Stages, Resources, Values, RefsInv, FilesInv,
        VdevRelease, Put, ReleasedWithDevice
<1>3. RefsInv'
  BY DEF IInv, RefsInv, VdevRelease, Put, ReleasedWithDevice
<1>4. FilesInv'
  BY DEF IInv, FilesInv, VdevRelease, Put, ReleasedWithDevice
<1>5. Bits' /\ UrbInv' /\ FlightInv' /\ CallInv' /\ FormatInv'
  BY DEF IInv, Bits, UrbInv, FlightInv, CallInv, FormatInv, Mode,
        VdevRelease, Put
<1> QED BY <1>1, <1>2, <1>3, <1>4, <1>5 DEF IInv

\* Only a registered device is opened.
LEMMA OpenStep ==
  ASSUME IInv, NEW f \in Files, Open(f)
  PROVE  IInv'
<1>1. Values'
  BY DEF IInv, Values, Open
<1>2. FilesInv'
  BY DEF IInv, FilesInv, HeldInv, Stages, Resources, Open
<1>3. CallInv'
  BY DEF IInv, CallInv, Open
<1>4. Bits' /\ HeldInv' /\ RefsInv' /\ UrbInv' /\ FlightInv' /\ FormatInv'
  BY DEF IInv, Bits, HeldInv, RefsInv, UrbInv, FlightInv, FormatInv, Mode,
        Open
<1> QED BY <1>1, <1>2, <1>3, <1>4 DEF IInv

\* Buffers are given up between streams.
LEMMA ReqbufsStep ==
  ASSUME IInv, NEW f \in Files, Reqbufs(f)
  PROVE  IInv'
<1>1. Values'
  BY DEF IInv, Values, Reqbufs, Ioctl
<1>2. CallInv'
  BY DEF IInv, CallInv, Reqbufs, Ioctl
<1>3. Bits' /\ HeldInv' /\ RefsInv' /\ FilesInv' /\ UrbInv' /\ FlightInv' /\ FormatInv'
  BY DEF IInv, Bits, HeldInv, RefsInv, FilesInv, UrbInv, FlightInv,
        FormatInv, Mode, Reqbufs, Ioctl
<1> QED BY <1>1, <1>2, <1>3 DEF IInv

\* Without buffers nothing streams.
LEMMA SetFormatStep ==
  ASSUME IInv, NEW f \in Files, NEW w \in AskedWidths, NEW h \in AskedHeights
         , SetFormat(f, Size(w, h))
  PROVE  IInv'
<1>1. Values'
  <2> DEFINE taken == up_s_fmt_vid_cap(Size(w, h))
  <2>1. taken \in {HD_720P, VGA_480P, LOW_240P} /\ taken.size \in up_enum_framesizes
    BY TakenIsSupported, AskedAssumption DEF SupportedResolutions
  <2>2. /\ size' = taken.size /\ hw_index' = taken.hw_index
        /\ committed' \in {committed, taken.hw_index}
        /\ UNCHANGED <<files, vbVars, ioVars, bitVars, fileUnchanged>>
        /\ io = "idle" /\ owner = NoFile
    BY DEF SetFormat, Commits, Ioctl
  <2>3. taken.hw_index \in 1 .. 3 /\ [size |-> taken.size, hw_index |-> taken.hw_index] = taken
    BY <2>1, SMT DEF HD_720P, VGA_480P, LOW_240P, Resolution, Size, UP_RES_480P,
       UP_RES_240P, UP_RES_720P
  <2> HIDE DEF taken
  <2> QED BY <2>1, <2>2, <2>3, SMT DEF IInv, Values
<1>2. FormatInv'
  <2> DEFINE taken == up_s_fmt_vid_cap(Size(w, h))
  <2>1. taken \in {HD_720P, VGA_480P, LOW_240P} /\ taken.size \in up_enum_framesizes
    BY TakenIsSupported, AskedAssumption DEF SupportedResolutions
  <2>2. /\ size' = taken.size /\ hw_index' = taken.hw_index
        /\ committed' \in {committed, taken.hw_index}
        /\ UNCHANGED <<files, vbVars, ioVars, bitVars, fileUnchanged>>
        /\ io = "idle" /\ owner = NoFile
    BY DEF SetFormat, Commits, Ioctl
  <2>3. taken.hw_index \in 1 .. 3 /\ [size |-> taken.size, hw_index |-> taken.hw_index] = taken
    BY <2>1, SMT DEF HD_720P, VGA_480P, LOW_240P, Resolution, Size, UP_RES_480P,
       UP_RES_240P, UP_RES_720P
  <2> HIDE DEF taken
  <2> QED BY <2>1, <2>2, <2>3, SMT DEF IInv, FormatInv, CallInv, SupportedResolutions, Mode
<1>3. Bits' /\ HeldInv' /\ RefsInv' /\ FilesInv' /\ UrbInv' /\ FlightInv' /\ CallInv'
  BY DEF IInv, Bits, HeldInv, RefsInv, FilesInv, UrbInv, FlightInv, CallInv,
        SetFormat, Ioctl
<1> QED BY <1>1, <1>2, <1>3 DEF IInv

\* The caller has the buffers.
LEMMA StreamonStep ==
  ASSUME IInv, NEW f \in Files, Streamon(f)
  PROVE  IInv'
<1>1. Bits'
  BY DEF IInv, Bits, Streamon, Ioctl
<1>2. Values'
  BY DEF IInv, Values, Streamon, Ioctl
<1>3. FlightInv'
  BY DEF IInv, FlightInv, Streamon, Ioctl
<1>4. CallInv'
  BY DEF IInv, CallInv, Streamon, Ioctl
<1>5. FormatInv'
  BY DEF IInv, FormatInv, Mode, SupportedResolutions, HD_720P, VGA_480P,
        LOW_240P, UP_RES_480P, UP_RES_240P, UP_RES_720P, Size, Streamon,
        Ioctl
<1>6. HeldInv' /\ RefsInv' /\ FilesInv' /\ UrbInv'
  BY DEF IInv, HeldInv, RefsInv, FilesInv, UrbInv, Streamon, Ioctl
<1> QED BY <1>1, <1>2, <1>3, <1>4, <1>5, <1>6 DEF IInv

\* The camera that is started takes the mode, or the start fails.
LEMMA ElevateStep ==
  ASSUME IInv, Elevate
  PROVE  IInv'
<1>1. Bits'
  BY DEF IInv, Bits, Elevate, Commits
<1>2. Values'
  BY DEF IInv, Values, Elevate, Commits
<1>3. FlightInv'
  BY DEF IInv, FlightInv, Elevate, Commits
<1>4. CallInv'
  BY DEF IInv, CallInv, Elevate, Commits
<1>5. FormatInv'
  BY DEF IInv, FormatInv, Mode, SupportedResolutions, HD_720P, VGA_480P,
        LOW_240P, UP_RES_480P, UP_RES_240P, UP_RES_720P, Size, Elevate,
        Commits
<1>6. HeldInv' /\ RefsInv' /\ FilesInv' /\ UrbInv'
  BY DEF IInv, HeldInv, RefsInv, FilesInv, UrbInv, Elevate
<1> QED BY <1>1, <1>2, <1>3, <1>4, <1>5, <1>6 DEF IInv

\* The mode stays.
LEMMA AuthStep ==
  ASSUME IInv, Auth
  PROVE  IInv'
<1>1. Values'
  BY DEF IInv, Values, Auth, Send
<1>2. FlightInv'
  BY DEF IInv, FlightInv, Auth, Send
<1>3. CallInv'
  BY DEF IInv, CallInv, Auth, Send
<1>4. FormatInv'
  BY DEF IInv, FormatInv, Mode, SupportedResolutions, HD_720P, VGA_480P,
        LOW_240P, UP_RES_480P, UP_RES_240P, UP_RES_720P, Size, Auth, Send
<1>5. Bits' /\ HeldInv' /\ RefsInv' /\ FilesInv' /\ UrbInv'
  BY DEF IInv, Bits, HeldInv, RefsInv, FilesInv, UrbInv, Auth, Send
<1> QED BY <1>1, <1>2, <1>3, <1>4, <1>5 DEF IInv

\* The mode stays.
LEMMA StartVideoStep ==
  ASSUME IInv, StartVideo
  PROVE  IInv'
<1>1. Values'
  BY DEF IInv, Values, StartVideo, Send
<1>2. FlightInv'
  BY DEF IInv, FlightInv, StartVideo, Send
<1>3. CallInv'
  BY DEF IInv, CallInv, StartVideo, Send
<1>4. FormatInv'
  BY DEF IInv, FormatInv, Mode, SupportedResolutions, HD_720P, VGA_480P,
        LOW_240P, UP_RES_480P, UP_RES_240P, UP_RES_720P, Size, StartVideo,
        Send
<1>5. Bits' /\ HeldInv' /\ RefsInv' /\ FilesInv' /\ UrbInv'
  BY DEF IInv, Bits, HeldInv, RefsInv, FilesInv, UrbInv, StartVideo, Send
<1> QED BY <1>1, <1>2, <1>3, <1>4, <1>5 DEF IInv

\* The mode stays.
LEMMA StartReadyStep ==
  ASSUME IInv, StartReady
  PROVE  IInv'
<1>1. Bits'
  BY DEF IInv, Bits, StartReady
<1>2. Values'
  BY DEF IInv, Values, StartReady
<1>3. FlightInv'
  BY DEF IInv, FlightInv, StartReady
<1>4. CallInv'
  BY DEF IInv, CallInv, StartReady
<1>5. FormatInv'
  BY DEF IInv, FormatInv, Mode, SupportedResolutions, HD_720P, VGA_480P,
        LOW_240P, UP_RES_480P, UP_RES_240P, UP_RES_720P, Size, StartReady
<1>6. HeldInv' /\ RefsInv' /\ FilesInv' /\ UrbInv'
  BY DEF IInv, HeldInv, RefsInv, FilesInv, UrbInv, StartReady
<1> QED BY <1>1, <1>2, <1>3, <1>4, <1>5, <1>6 DEF IInv

\* Only a pointer is read.
LEMMA ReadToSubmitStep ==
  ASSUME IInv, ReadToSubmit
  PROVE  IInv'
<1>1. Values'
  BY DEF IInv, Values, ReadToSubmit
<1>2. FlightInv'
  BY DEF IInv, FlightInv, ReadToSubmit
<1>3. CallInv'
  BY DEF IInv, CallInv, ReadToSubmit
<1>4. FormatInv'
  BY DEF IInv, FormatInv, Mode, ReadToSubmit
<1>5. Bits' /\ HeldInv' /\ RefsInv' /\ FilesInv' /\ UrbInv'
  BY DEF IInv, Bits, HeldInv, RefsInv, FilesInv, UrbInv, ReadToSubmit
<1> QED BY <1>1, <1>2, <1>3, <1>4, <1>5 DEF IInv

\* An URB is submitted; it is noted when it has been killed before.
LEMMA SubmitStep ==
  ASSUME IInv, Submit
  PROVE  IInv'
<1>1. /\ io = "submit" /\ io_urb \in Urbs /\ urb_sub < NumUrbs /\ io_urb' = 0
      /\ \/ /\ in_flight' = in_flight \cup {io_urb} /\ late' = (late \/ Killed(io_urb))
            /\ urb_sub' = urb_sub + 1 /\ io' = io
         \/ UNCHANGED <<in_flight, late, urb_sub>> /\ io' = "error"
      /\ UNCHANGED <<usbVars, itfVars, held, urbVars, devVars, vbVars, io_kill, closer,
                     bitVars, cbVars, workVars, fmtVars>>
  BY DEF IInv, Values, CallInv, Submit
<1>2. Bits'
  <2>1. late' \in BOOLEAN BY <1>1 DEF IInv, Bits
  <2>2. UNCHANGED <<usbVars, registered, streaming, bitVars, workVars, urb_buf>>
    BY <1>1
  <2> QED BY <2>1, <2>2 DEF IInv, Bits
<1>3. Values'
  <2>1. /\ in_flight' \in {in_flight, in_flight \cup {io_urb}}
        /\ urb_sub' \in {urb_sub, urb_sub + 1} /\ io_urb' = 0 /\ io' \in {"submit", "error"}
    BY <1>1, Zenon
  <2>3. in_flight' \subseteq Urbs /\ urb_sub' \in 0 .. NumUrbs
    BY <1>1, <2>1 DEF IInv, Values
  <2>2. UNCHANGED <<itfVars, held, urb, devVars, vbVars, io_kill, closer, cbVars, fmtVars>>
    BY <1>1
  <2> QED BY <2>1, <2>2, <2>3 DEF IInv, Values
<1>4. itf \notin Before
  BY <1>1 DEF IInv, FilesInv, CallInv
<1>5. FlightInv'
  <2>1. ~late' => ~late /\ \A i \in in_flight' : i \in in_flight \/ ~Killed(i)
    <3>1. CASE in_flight' = in_flight \cup {io_urb} /\ late' = (late \/ Killed(io_urb))
      <4>1. ~late' => ~late /\ ~Killed(io_urb) BY <3>1, Zenon
      <4> HIDE DEF Killed
      <4> QED BY <3>1, <4>1, Zenon
    <3>2. CASE UNCHANGED <<in_flight, late>> BY <3>2
    <3> QED BY <1>1, <3>1, <3>2
  <2>2. UNCHANGED <<usbVars, itfVars, cbVars, workVars>> /\ ~asleep
    BY <1>1 DEF IInv, FlightInv
  <2>3. ~late' => \A i \in in_flight' \cup ({cb_urb'} \ {0}) : ~Killed(i)'
    BY <2>1, <2>2 DEF IInv, FlightInv
  <2> QED BY <1>4, <2>1, <2>2, <2>3 DEF IInv, FlightInv
<1>6. CallInv'
  BY <1>1 DEF IInv, CallInv
<1>7. FormatInv'
  BY <1>1 DEF IInv, FormatInv, Mode, CallInv
<1>8. HeldInv' /\ RefsInv' /\ FilesInv' /\ UrbInv'
  BY <1>1 DEF IInv, HeldInv, RefsInv, FilesInv, UrbInv
<1> QED BY <1>2, <1>3, <1>5, <1>6, <1>7, <1>8 DEF IInv

\* The camera streams in the mode that was sent.
LEMMA StartedStep ==
  ASSUME IInv, Started
  PROVE  IInv'
<1>1. Bits'
  BY DEF IInv, Bits, Started
<1>2. Values'
  BY DEF IInv, Values, Started
<1>3. FlightInv'
  BY DEF IInv, FlightInv, Started
<1>4. CallInv'
  BY DEF IInv, CallInv, Started
<1>5. FormatInv'
  BY DEF IInv, FormatInv, Mode, SupportedResolutions, HD_720P, VGA_480P,
        LOW_240P, UP_RES_480P, UP_RES_240P, UP_RES_720P, Size, Started
<1>6. HeldInv' /\ RefsInv' /\ FilesInv' /\ UrbInv'
  BY DEF IInv, HeldInv, RefsInv, FilesInv, UrbInv, Started
<1> QED BY <1>1, <1>2, <1>3, <1>4, <1>5, <1>6 DEF IInv

\* The start has not succeeded.
LEMMA StartErrorStep ==
  ASSUME IInv, StartError
  PROVE  IInv'
<1>1. Bits'
  BY DEF IInv, Bits, StartError
<1>2. Values'
  BY DEF IInv, Values, StartError
<1>3. FlightInv'
  BY DEF IInv, FlightInv, StartError
<1>4. CallInv'
  BY DEF IInv, CallInv, StartError
<1>5. FormatInv'
  BY DEF IInv, FormatInv, Mode, SupportedResolutions, HD_720P, VGA_480P,
        LOW_240P, UP_RES_480P, UP_RES_240P, UP_RES_720P, Size, StartError
<1>6. HeldInv' /\ RefsInv' /\ FilesInv' /\ UrbInv'
  BY DEF IInv, HeldInv, RefsInv, FilesInv, UrbInv, StartError
<1> QED BY <1>1, <1>2, <1>3, <1>4, <1>5, <1>6 DEF IInv

\* Only a pointer is read.
LEMMA ReadToKillStep ==
  ASSUME IInv, ReadToKill
  PROVE  IInv'
<1>1. Values'
  BY DEF IInv, Values, ReadToKill
<1>2. FlightInv'
  BY DEF IInv, FlightInv, ReadToKill
<1>3. CallInv'
  BY DEF IInv, CallInv, ReadToKill
<1>4. FormatInv'
  BY DEF IInv, FormatInv, Mode, ReadToKill
<1>5. Bits' /\ HeldInv' /\ RefsInv' /\ FilesInv' /\ UrbInv'
  BY DEF IInv, Bits, HeldInv, RefsInv, FilesInv, UrbInv, ReadToKill
<1> QED BY <1>1, <1>2, <1>3, <1>4, <1>5 DEF IInv

\* Killing takes URBs away.
LEMMA KillUrbStep ==
  ASSUME IInv, KillUrb
  PROVE  IInv'
<1>1. Values'
  <2>1. /\ in_flight' \in {in_flight, in_flight \ {io_urb}} /\ io_urb' = 0
        /\ io_kill' = io_kill + 1
    BY Zenon DEF KillUrb
  <2>2. io_kill \in 1 .. NumUrbs BY DEF IInv, Values, CallInv, KillUrb
  <2>3. in_flight' \subseteq Urbs BY <2>1 DEF IInv, Values
  <2> QED BY <2>1, <2>2, <2>3 DEF IInv, Values, KillUrb
<1>2. FlightInv'
  BY DEF IInv, FlightInv, KillUrb
<1>3. FormatInv'
  BY DEF IInv, FormatInv, Mode, SupportedResolutions, HD_720P, VGA_480P,
        LOW_240P, UP_RES_480P, UP_RES_240P, UP_RES_720P, Size, KillUrb
<1>4. Bits' /\ HeldInv' /\ RefsInv' /\ FilesInv' /\ UrbInv' /\ CallInv'
  BY DEF IInv, Bits, HeldInv, RefsInv, FilesInv, UrbInv, CallInv, KillUrb
<1> QED BY <1>1, <1>2, <1>3, <1>4 DEF IInv

\* The call returns.
LEMMA StartFailedStep ==
  ASSUME IInv, StartFailed
  PROVE  IInv'
<1>1. Bits'
  BY DEF IInv, Bits, StartFailed
<1>2. Values'
  BY DEF IInv, Values, StartFailed
<1>3. FlightInv'
  BY DEF IInv, FlightInv, StartFailed
<1>4. CallInv'
  BY DEF IInv, CallInv, StartFailed
<1>5. FormatInv'
  BY DEF IInv, FormatInv, Mode, SupportedResolutions, HD_720P, VGA_480P,
        LOW_240P, UP_RES_480P, UP_RES_240P, UP_RES_720P, Size, StartFailed
<1>6. HeldInv' /\ RefsInv' /\ FilesInv' /\ UrbInv'
  BY DEF IInv, HeldInv, RefsInv, FilesInv, UrbInv, StartFailed
<1> QED BY <1>1, <1>2, <1>3, <1>4, <1>5, <1>6 DEF IInv

\* The caller has the buffers.
LEMMA StreamoffStep ==
  ASSUME IInv, NEW f \in Files, Streamoff(f)
  PROVE  IInv'
<1>1. Values'
  BY DEF IInv, Values, Streamoff, Ioctl
<1>2. FlightInv'
  BY DEF IInv, FlightInv, Streamoff, Ioctl
<1>3. CallInv'
  BY DEF IInv, CallInv, Streamoff, Ioctl
<1>4. FormatInv'
  BY DEF IInv, FormatInv, Mode, SupportedResolutions, HD_720P, VGA_480P,
        LOW_240P, UP_RES_480P, UP_RES_240P, UP_RES_720P, Size, Streamoff,
        Ioctl
<1>5. Bits' /\ HeldInv' /\ RefsInv' /\ FilesInv' /\ UrbInv'
  BY DEF IInv, Bits, HeldInv, RefsInv, FilesInv, UrbInv, Streamoff, Ioctl
<1> QED BY <1>1, <1>2, <1>3, <1>4, <1>5 DEF IInv

\* The file is kept until its stream is stopped.
LEMMA CloseStep ==
  ASSUME IInv, NEW f \in Files, Close(f)
  PROVE  IInv'
<1>1. Values'
  BY DEF IInv, Values, Close
<1>2. FilesInv'
  BY DEF IInv, FilesInv, Close
<1>3. FlightInv'
  BY DEF IInv, FlightInv, Close
<1>4. CallInv'
  BY DEF IInv, CallInv, Close
<1>5. FormatInv'
  BY DEF IInv, FormatInv, Mode, SupportedResolutions, HD_720P, VGA_480P,
        LOW_240P, UP_RES_480P, UP_RES_240P, UP_RES_720P, Size, Close
<1>6. Bits' /\ HeldInv' /\ RefsInv' /\ UrbInv'
  BY DEF IInv, Bits, HeldInv, RefsInv, UrbInv, Close
<1> QED BY <1>1, <1>2, <1>3, <1>4, <1>5, <1>6 DEF IInv

\* Nothing is taken away yet.
LEMMA StopStep ==
  ASSUME IInv, Stop
  PROVE  IInv'
<1>1. Bits'
  BY DEF IInv, Bits, Stop
<1>2. Values'
  BY DEF IInv, Values, Stop
<1>3. FlightInv'
  BY DEF IInv, FlightInv, Stop
<1>4. CallInv'
  BY DEF IInv, CallInv, Stop
<1>5. FormatInv'
  BY DEF IInv, FormatInv, Mode, SupportedResolutions, HD_720P, VGA_480P,
        LOW_240P, UP_RES_480P, UP_RES_240P, UP_RES_720P, Size, Stop
<1>6. HeldInv' /\ RefsInv' /\ FilesInv' /\ UrbInv'
  BY DEF IInv, HeldInv, RefsInv, FilesInv, UrbInv, Stop
<1> QED BY <1>1, <1>2, <1>3, <1>4, <1>5, <1>6 DEF IInv

\* Nothing is queued any more.
LEMMA StopCancelsStep ==
  ASSUME IInv, StopCancels
  PROVE  IInv'
<1>1. Bits'
  BY DEF IInv, Bits, StopCancels
<1>2. Values'
  BY DEF IInv, Values, StopCancels
<1>3. FlightInv'
  BY DEF IInv, FlightInv, StopCancels
<1>4. CallInv' /\ FormatInv'
  BY DEF IInv, CallInv, FormatInv, Mode, StopCancels
<1>5. HeldInv' /\ RefsInv' /\ FilesInv' /\ UrbInv'
  BY DEF IInv, HeldInv, RefsInv, FilesInv, UrbInv, StopCancels
<1> QED BY <1>1, <1>2, <1>3, <1>4, <1>5 DEF IInv

\* The stream is over, and with it the file, if it was being closed.
LEMMA StoppedStep ==
  ASSUME IInv, Stopped
  PROVE  IInv'
<1>1. Bits'
  BY DEF IInv, Bits, Stopped
<1>2. Values'
  BY DEF IInv, Values, Stopped
<1>3. FilesInv'
  BY DEF IInv, FilesInv, Stopped
<1>4. FlightInv'
  BY DEF IInv, FlightInv, Stopped
<1>5. CallInv'
  BY DEF IInv, CallInv, Stopped
<1>6. FormatInv'
  BY DEF IInv, FormatInv, Mode, SupportedResolutions, HD_720P, VGA_480P,
        LOW_240P, UP_RES_480P, UP_RES_240P, UP_RES_720P, Size, Stopped
<1>7. HeldInv' /\ RefsInv' /\ UrbInv'
  BY DEF IInv, HeldInv, RefsInv, UrbInv, Stopped
<1> QED BY <1>1, <1>2, <1>3, <1>4, <1>5, <1>6, <1>7 DEF IInv

\* The URB that is in its handler was in flight.
LEMMA CompleteStep ==
  ASSUME IInv, NEW i \in Urbs, Complete(i)
  PROVE  IInv'
<1>1. Values'
  BY DEF IInv, Values, Complete
<1>2. FlightInv'
  BY DEF IInv, FlightInv, Complete
<1>3. FormatInv'
  BY DEF IInv, FormatInv, Mode, SupportedResolutions, HD_720P, VGA_480P,
        LOW_240P, UP_RES_480P, UP_RES_240P, UP_RES_720P, Size, Complete
<1>4. Bits' /\ HeldInv' /\ RefsInv' /\ FilesInv' /\ UrbInv' /\ CallInv'
  BY DEF IInv, Bits, HeldInv, RefsInv, FilesInv, UrbInv, CallInv, Complete
<1> QED BY <1>1, <1>2, <1>3, <1>4 DEF IInv

\* The work is queued, where it is not being cancelled.
LEMMA CbQueueStep ==
  ASSUME IInv, CbQueue
  PROVE  IInv'
<1>1. Bits'
  BY DEF IInv, Bits, CbQueue
<1>2. Values'
  BY DEF IInv, Values, CbQueue
<1>3. FlightInv'
  <2>1. cb = "queue" /\ cb' = "resubmit" /\ UNCHANGED <<cb_urb, in_flight, work, dataUnchanged>>
    BY DEF CbQueue
  <2>2. cb_urb # 0 /\ itf \notin Before
    BY <2>1 DEF IInv, FlightInv
  <2>3. ~late => itf \in Receiving
    BY <2>1, <2>2 DEF IInv, Values, FlightInv
  <2> QED BY <2>1, <2>2, <2>3 DEF IInv, FlightInv
<1>4. FormatInv'
  BY DEF IInv, FormatInv, Mode, SupportedResolutions, HD_720P, VGA_480P,
        LOW_240P, UP_RES_480P, UP_RES_240P, UP_RES_720P, Size, CbQueue
<1>5. HeldInv' /\ RefsInv' /\ FilesInv' /\ UrbInv' /\ CallInv'
  BY DEF IInv, HeldInv, RefsInv, FilesInv, UrbInv, CallInv, CbQueue
<1> QED BY <1>1, <1>2, <1>3, <1>4, <1>5 DEF IInv

\* An URB that is submitted again has not been killed, or was submitted late.
LEMMA CbResubmitStep ==
  ASSUME IInv, CbResubmit
  PROVE  IInv'
<1>1. Values'
  <2>1. in_flight' \in {in_flight, in_flight \cup {cb_urb}} /\ cb' = "none" /\ cb_urb' = 0
    BY Zenon DEF CbResubmit
  <2>2. cb_urb \in Urbs /\ in_flight \subseteq Urbs
    BY DEF IInv, Values, FlightInv, CbResubmit
  <2>3. in_flight' \subseteq Urbs BY <2>1, <2>2
  <2> QED BY <2>1, <2>3 DEF IInv, Values, CbResubmit
<1>2. FlightInv'
  BY DEF IInv, FlightInv, CbResubmit
<1>3. FormatInv'
  BY DEF IInv, FormatInv, Mode, SupportedResolutions, HD_720P, VGA_480P,
        LOW_240P, UP_RES_480P, UP_RES_240P, UP_RES_720P, Size, CbResubmit
<1>4. Bits' /\ HeldInv' /\ RefsInv' /\ FilesInv' /\ UrbInv' /\ CallInv'
  BY DEF IInv, Bits, HeldInv, RefsInv, FilesInv, UrbInv, CallInv, CbResubmit
<1> QED BY <1>1, <1>2, <1>3, <1>4 DEF IInv

\* The worker runs once for all the data.
LEMMA WorkStep ==
  ASSUME IInv, Work
  PROVE  IInv'
<1>1. Bits'
  BY DEF IInv, Bits, Work
<1>2. FlightInv'
  BY DEF IInv, FlightInv, Work
<1>3. Values' /\ HeldInv' /\ RefsInv' /\ FilesInv' /\ UrbInv' /\ CallInv' /\ FormatInv'
  BY DEF IInv, Values, HeldInv, RefsInv, FilesInv, UrbInv, CallInv,
        FormatInv, Mode, Work
<1> QED BY <1>1, <1>2, <1>3 DEF IInv

\* The endpoints go with the camera.
LEMMA UnplugStep ==
  ASSUME IInv, Unplug
  PROVE  IInv'
<1>1. Bits'
  BY DEF IInv, Bits, Unplug
<1>2. FlightInv'
  BY DEF IInv, FlightInv, Unplug
<1>3. Values' /\ HeldInv' /\ RefsInv' /\ FilesInv' /\ UrbInv' /\ CallInv' /\ FormatInv'
  BY DEF IInv, Values, HeldInv, RefsInv, FilesInv, UrbInv, CallInv,
        FormatInv, Mode, Unplug
<1> QED BY <1>1, <1>2, <1>3 DEF IInv

\* No call is in progress.
LEMMA SuspendStep ==
  ASSUME IInv, Suspend
  PROVE  IInv'
<1>1. Bits'
  BY DEF IInv, Bits, Suspend
<1>2. FlightInv'
  BY DEF IInv, FlightInv, Suspend
<1>3. Values' /\ HeldInv' /\ RefsInv' /\ FilesInv' /\ UrbInv' /\ CallInv' /\ FormatInv'
  BY DEF IInv, Values, HeldInv, RefsInv, FilesInv, UrbInv, CallInv,
        FormatInv, Mode, Suspend
<1> QED BY <1>1, <1>2, <1>3 DEF IInv

\* Nothing is in flight when the camera may have lost its mode.
LEMMA ResumeStep ==
  ASSUME IInv, Resume
  PROVE  IInv'
<1>1. Bits'
  BY DEF IInv, Bits, Resume
<1>2. Values'
  BY DEF IInv, Values, Resume
<1>3. FlightInv'
  BY DEF IInv, FlightInv, Resume
<1>4. FormatInv'
  BY DEF IInv, FormatInv, Mode, SupportedResolutions, HD_720P, VGA_480P,
        LOW_240P, UP_RES_480P, UP_RES_240P, UP_RES_720P, Size, FlightInv,
        Resume
<1>5. HeldInv' /\ RefsInv' /\ FilesInv' /\ UrbInv' /\ CallInv'
  BY DEF IInv, HeldInv, RefsInv, FilesInv, UrbInv, CallInv, Resume
<1> QED BY <1>1, <1>2, <1>3, <1>4, <1>5 DEF IInv

-----------------------------------------------------------------------------
(* The invariant holds, and what it says.                                  *)

\* When nothing has been probed, nothing is held.
LEMMA InitIInv == Init => IInv
<1> SUFFICES ASSUME Init PROVE IInv OBVIOUS
<1>1. Bits BY DEF Init, Bits
<1>2. Size(640, 480) \in up_enum_framesizes
  BY DEF up_enum_framesizes, up_sizes
<1>3. Values BY <1>2 DEF Init, Values
<1>4. HeldInv BY DEF Init, HeldInv
<1>5. RefsInv /\ FilesInv BY DEF Init, RefsInv, FilesInv
<1>6. UrbInv /\ FlightInv BY DEF Init, UrbInv, FlightInv
<1>7. CallInv BY DEF Init, CallInv
<1>8. FormatInv
  BY SMT DEF Init, FormatInv, Mode, SupportedResolutions, HD_720P, VGA_480P, LOW_240P,
     Resolution, UP_RES_480P
<1> QED BY <1>1, <1>3, <1>4, <1>5, <1>6, <1>7, <1>8 DEF IInv

\* The operations of an open file.
LEMMA FileStep ==
  ASSUME IInv, NEW f \in Files,
         \/ Open(f) \/ Reqbufs(f) \/ Streamon(f) \/ Streamoff(f) \/ Close(f)
         \/ \E w \in AskedWidths, h \in AskedHeights : SetFormat(f, Size(w, h))
  PROVE  IInv'
BY OpenStep, ReqbufsStep, StreamonStep, StreamoffStep, CloseStep, SetFormatStep

\* Every step keeps the invariant.
LEMMA StepIInv == IInv /\ [Next]_vars => IInv'
<1> SUFFICES ASSUME IInv, [Next]_vars PROVE IInv' OBVIOUS
<1>1. CASE Probe
  BY <1>1, ProbeStageStep, AllocUrbStep, ErrorUrbsStep, ErrorUnregV4l2Step,
        ErrorReleaseIapStep, ErrorFreeDevStep DEF Probe
<1>2. CASE DisconnectSteps
  BY <1>2, DiscReleaseIapStep, DiscClearStep, DiscKillStep, DiscFreeStep,
        DiscCancelWorkStep, DiscDestroyWqStep, DiscUnregisterStep, DiscPutStep,
        DiscResetStep
     DEF DisconnectSteps
<1>3. CASE IoThread
  BY <1>3, ElevateStep, AuthStep, StartVideoStep, StartReadyStep, ReadToSubmitStep,
        SubmitStep, StartedStep, StartErrorStep, ReadToKillStep, KillUrbStep,
        StartFailedStep, StopStep, StopCancelsStep, StoppedStep
     DEF IoThread
<1>4. CASE Data
  BY <1>4, CompleteStep, CbQueueStep, CbResubmitStep, WorkStep DEF Data
<1>5. CASE \/ Unplug \/ Suspend \/ Resume \/ DetachIap \/ Disconnect \/ VdevRelease
  BY <1>5, UnplugStep, SuspendStep, ResumeStep, DetachIapStep, DisconnectStep,
        VdevReleaseStep
<1>6. CASE \E f \in Files :
               \/ Open(f) \/ Reqbufs(f) \/ Streamon(f) \/ Streamoff(f) \/ Close(f)
               \/ \E w \in AskedWidths, h \in AskedHeights : SetFormat(f, Size(w, h))
  BY <1>6, FileStep
<1>7. CASE UNCHANGED vars
  <2>1. Bits' BY <1>7 DEF IInv, Bits, vars
  <2>2. Values' BY <1>7 DEF IInv, Values, vars
  <2>3. HeldInv' /\ RefsInv' /\ FilesInv'
    BY <1>7 DEF IInv, HeldInv, RefsInv, FilesInv, vars
  <2>4. UrbInv' BY <1>7 DEF IInv, UrbInv, vars
  <2>5. FlightInv' /\ CallInv' BY <1>7 DEF IInv, FlightInv, CallInv, vars
  <2>6. FormatInv' BY <1>7 DEF IInv, FormatInv, Mode, vars
  <2> QED BY <2>1, <2>2, <2>3, <2>4, <2>5, <2>6 DEF IInv
<1> QED BY <1>1, <1>2, <1>3, <1>4, <1>5, <1>6, <1>7 DEF Next, Over

\* The invariant holds throughout.
LEMMA Inductive == Spec => []IInv
<1>1. IInv /\ [Next]_vars => IInv' BY StepIInv
<1> QED BY InitIInv, <1>1, PTL DEF Spec

\* Every variable has its type, throughout the camera's life.
THEOREM LifecycleTypeCorrect == Spec => []TypeOK
<1>1. IInv => TypeOK BY TypesAreBitsAndValues DEF IInv
<1> QED BY <1>1, Inductive, PTL

\* Whoever still runs while up_disconnect takes the driver down, or after it, has what it
\* uses, for any number of files and URBs.
THEOREM DeviceOutlivesUsers == Spec => []UsersHoldDevice
<1>1. IInv => UsersHoldDevice
  <2> SUFFICES ASSUME IInv PROVE UsersHoldDevice OBVIOUS
  <2>1. files # {} => "dev" \in held
    BY DEF IInv, Values, FilesInv, HeldInv, Resources
  <2>2. io # "idle" => files # {}
    BY DEF IInv, CallInv
  <2>3. ~late /\ (in_flight # {} \/ cb # "none") => itf \in Receiving
    BY DEF IInv, Values, FlightInv
  <2>4. /\ ~late /\ pending => itf \in Receiving \cup {"free"}
        /\ ~late /\ work => itf \in Receiving \cup {"free", "cancel"}
    BY DEF IInv, FlightInv
  <2>5. itf \in Receiving \cup {"free", "cancel"} =>
            {"dev", "wq", "fifo", "workspace"} \subseteq held
    BY DEF IInv, HeldInv, Resources
  <2>6. /\ itf = "error_unreg_v4l2" => "v4l2" \in held
        /\ itf = "error_release_iap" => "iap" \in held
    BY DEF IInv, HeldInv
  <2> QED BY <2>1, <2>2, <2>3, <2>4, <2>5, <2>6 DEF UsersHoldDevice
<1> QED BY <1>1, Inductive, PTL

\* Of the URBs that were submitted before up_free_urbs came to them, none is freed while
\* the host controller or its handler has it.
THEOREM UrbsFreedWhenIdle == Spec => []KilledBeforeFreed
<1>1. IInv => KilledBeforeFreed
  <2> SUFFICES ASSUME IInv, ~late, NEW i \in in_flight \cup ({cb_urb} \ {0})
      PROVE urb[i] = "live" /\ urb_buf[i]
    BY DEF KilledBeforeFreed, NoUrbFreedInFlight
  <2>1. i \in Urbs BY DEF IInv, Values
  <2>2. itf \in Receiving BY DEF IInv, Values, FlightInv
  <2> QED BY <2>1, <2>2 DEF IInv, UrbInv
<1> QED BY <1>1, Inductive, PTL

\* A probe that fails at any stage, and a camera that is gone, leave nothing behind.
THEOREM EverythingReleased == Spec => []NothingLeftBehind
<1>1. IInv => NothingLeftBehind
  <2> SUFFICES ASSUME IInv,
                      itf = "failed" \/ (itf = "gone" /\ files = {} /\ "vdev" \notin held)
      PROVE /\ held = {} /\ v4l2_refs = 0
            /\ \A i \in Urbs : urb[i] = "none" /\ ~urb_buf[i]
            /\ ~late => in_flight = {} /\ cb = "none" /\ ~pending /\ ~work
    BY DEF NothingLeftBehind
  <2>1. held = {} BY DEF IInv, HeldInv, Resources
  <2>2. v4l2_refs = 0 BY <2>1 DEF IInv, RefsInv
  <2>3. \A i \in Urbs : urb[i] = "none" /\ ~urb_buf[i] BY DEF IInv, UrbInv
  <2>4. ~late => in_flight = {} /\ cb = "none" BY DEF IInv, Values, FlightInv
  <2>5. ~late => ~pending /\ ~work BY DEF IInv, FlightInv
  <2> QED BY <2>1, <2>2, <2>3, <2>4, <2>5
<1> QED BY <1>1, Inductive, PTL

\* What is received has the size that G_FMT reports, whatever sizes programs ask for.
THEOREM PicturesAsReported == Spec => []StreamsReportedFormat
<1>1. IInv => StreamsReportedFormat
  BY DEF IInv, FormatInv, StreamsReportedFormat
<1> QED BY <1>1, Inductive, PTL
=============================================================================
