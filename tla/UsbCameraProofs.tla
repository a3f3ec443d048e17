--------------------------- MODULE UsbCameraProofs --------------------------
(***************************************************************************)
(* Type correctness of UsbCamera, that a camera has one commander, and     *)
(* that it is given back, for any number of programs and of cameras.       *)
(***************************************************************************)
EXTENDS UsbCamera, TLAPS

\* Between open() and libusb_close().
Opened == {"detach_iap", "detach_video", "claim_iap", "claim_video", "alternate",
           "negotiate", "streaming", "release_iap", "release_video", "attach", "close"}

\* Where the constructor may fail.
Throwing == {"open", "claim_iap", "claim_video", "alternate", "negotiate"}

\* Where a program has the iAP interface, and where the video interface.
HasIap == {"claim_video", "alternate", "negotiate", "streaming", "release_iap"}
HasVideo == {"alternate", "negotiate", "streaming", "release_iap", "release_video"}

\* An address that is on the bus is used.
Addresses == fresh \cap plugged = {}

\* The handle is open on the camera that was chosen.
Opening == \A p \in Programs :
    IF pc[p] \in Opened THEN handle[p] = target[p] /\ handle[p] \in Cameras \ fresh
    ELSE handle[p] = Nobody

\* What a program has claimed it has until it releases it or dies.
Claims == \A p \in Programs : Present(p) =>
    /\ pc[p] \in HasIap => holder[handle[p]]["iap"] = p
    /\ pc[p] \in HasVideo => holder[handle[p]]["video"] = p

\* The camera is in the mode its commander has set.
Modes == \A p \in Programs : Present(p) =>
    /\ pc[p] \in {"negotiate", "streaming"} => alt[handle[p]] = 1
    /\ pc[p] = "streaming" => mode[handle[p]] = p

\* A program that has an interface is between its claim and its release.
HoldersKnown == \A p \in Programs, c \in Cameras :
    /\ holder[c]["iap"] = p => handle[p] = c /\ pc[p] \in HasIap
    /\ holder[c]["video"] = p => handle[p] = c /\ pc[p] \in HasVideo

\* The driver has both interfaces, or a program is about to take the second from it.
DriverHalves == \A c \in Cameras :
    /\ holder[c]["iap"] = Driver => holder[c]["video"] = Driver
    /\ holder[c]["video"] = Driver /\ holder[c]["iap"] # Driver =>
          \E p \in Programs : handle[p] = c /\ pc[p] = "detach_video"

\* A camera that nobody has is about to be claimed or given back.
Unclaimed == \A c \in plugged :
    /\ loaded
    /\ holder[c]["iap"] = Nobody /\ holder[c]["video"] = Nobody
    /\ \A p \in Programs : ~(pc[p] = "dead" /\ target[p] = c)
    => \E p \in Programs : handle[p] = c /\ pc[p] \in {"claim_iap", "attach"}

IInv == /\ TypeOK /\ Addresses /\ Opening /\ Claims /\ Modes
        /\ HoldersKnown /\ DriverHalves /\ Unclaimed

USE HoldersAssumption DEF Go, busVars, camVars, choiceVars, conUnchanged

LEMMA InitIInv == Init => IInv
BY DEF Init, IInv, TypeOK, Addresses, Opening, Claims, Modes, HoldersKnown,
    DriverHalves, Unclaimed, Present, Opened, BothWith, Interfaces, Over

\* A camera that is plugged in is the driver's, or without a holder where there is no driver.
LEMMA PlugStep ==
  ASSUME IInv, NEW c \in Cameras, Plug(c)
  PROVE  IInv'
<1>1. TypeOK'
  BY DEF IInv, TypeOK, Over, Interfaces, Plug, Probed, BothWith
<1>2. Addresses'
  BY DEF IInv, Addresses, Plug, Probed, BothWith
<1>3. Opening'
  BY DEF IInv, Opening, Opened, Plug, Probed, BothWith
<1>4. Claims'
  BY DEF IInv, Claims, Present, HasIap, HasVideo, TypeOK, Over, Interfaces,
        Opening, Opened, Plug, Probed, BothWith
<1>5. Modes'
  BY DEF IInv, Modes, Present, TypeOK, Over, Interfaces, Opening, Opened,
        Plug, Probed, BothWith
<1>6. HoldersKnown'
  BY DEF IInv, HoldersKnown, HasIap, HasVideo, TypeOK, Over, Interfaces,
        Plug, Probed, BothWith
<1>7. DriverHalves'
  BY DEF IInv, DriverHalves, TypeOK, Over, Interfaces, Plug, Probed, BothWith
<1>8. Unclaimed'
  BY DEF IInv, Unclaimed, TypeOK, Over, Interfaces, Plug, Probed, BothWith
<1> QED BY <1>1, <1>2, <1>3, <1>4, <1>5, <1>6, <1>7, <1>8 DEF IInv

\* What is held of a camera goes with it.
LEMMA UnplugStep ==
  ASSUME IInv, NEW c \in Cameras, Unplug(c)
  PROVE  IInv'
<1>1. TypeOK'
  BY DEF IInv, TypeOK, Over, Interfaces, Unplug, BothWith
<1>2. Addresses'
  BY DEF IInv, Addresses, Unplug, BothWith
<1>3. Opening'
  BY DEF IInv, Opening, Opened, Unplug, BothWith
<1>4. Claims'
  BY DEF IInv, Claims, Present, HasIap, HasVideo, Unplug, BothWith
<1>5. Modes'
  BY DEF IInv, Modes, Present, Unplug, BothWith
<1>6. HoldersKnown'
  BY DEF IInv, HoldersKnown, HasIap, HasVideo, TypeOK, Over, Interfaces,
        Unplug, BothWith
<1>7. DriverHalves'
  BY DEF IInv, DriverHalves, TypeOK, Over, Interfaces, Unplug, BothWith
<1>8. Unclaimed'
  BY DEF IInv, Unclaimed, Unplug, BothWith
<1> QED BY <1>1, <1>2, <1>3, <1>4, <1>5, <1>6, <1>7, <1>8 DEF IInv

\* A driver that is loaded takes every camera that has no holder.
LEMMA LoadStep ==
  ASSUME IInv, LoadDriver
  PROVE  IInv'
<1>1. TypeOK'
  BY DEF IInv, TypeOK, Over, Interfaces, LoadDriver, Probed, BothWith
<1>2. Addresses'
  BY DEF IInv, Addresses, LoadDriver, Probed, BothWith
<1>3. Opening'
  BY DEF IInv, Opening, Opened, LoadDriver, Probed, BothWith
<1>4. Claims'
  BY DEF IInv, Claims, Present, HasIap, HasVideo, TypeOK, Over, Interfaces,
        LoadDriver, Probed, BothWith
<1>5. Modes'
  BY DEF IInv, Modes, Present, LoadDriver, Probed, BothWith
<1>6. HoldersKnown'
  BY DEF IInv, HoldersKnown, HasIap, HasVideo, TypeOK, Over, Interfaces,
        LoadDriver, Probed, BothWith
<1>7. DriverHalves'
  BY DEF IInv, DriverHalves, TypeOK, Over, Interfaces, LoadDriver, Probed,
        BothWith
<1>8. Unclaimed'
  BY DEF IInv, Unclaimed, TypeOK, Over, Interfaces, LoadDriver, Probed,
        BothWith
<1> QED BY <1>1, <1>2, <1>3, <1>4, <1>5, <1>6, <1>7, <1>8 DEF IInv

\* The choice concerns no camera.
LEMMA ChooseStep ==
  ASSUME IInv, NEW p \in Programs, Choose(p)
  PROVE  IInv'
<1>1. TypeOK'
  BY DEF IInv, TypeOK, Over, Interfaces, Choose
<1>2. Addresses'
  BY DEF IInv, Addresses, Choose
<1>3. Opening'
  BY DEF IInv, Opening, Opened, Choose
<1>4. Claims'
  BY DEF IInv, Claims, Present, HasIap, HasVideo, Choose
<1>5. Modes'
  BY DEF IInv, Modes, Present, Choose
<1>6. HoldersKnown'
  BY DEF IInv, HoldersKnown, HasIap, HasVideo, Choose
<1>7. DriverHalves'
  BY DEF IInv, DriverHalves, Choose
<1>8. Unclaimed'
  BY DEF IInv, Unclaimed, Choose
<1> QED BY <1>1, <1>2, <1>3, <1>4, <1>5, <1>6, <1>7, <1>8 DEF IInv

\* A program that dies has nothing any more; its camera is the exception of Unclaimed.
LEMMA ThrowStep ==
  ASSUME IInv, NEW p \in Programs, Throw(p), pc[p] \in Throwing
  PROVE  IInv'
<1>1. TypeOK'
  BY DEF IInv, TypeOK, Over, Interfaces, Throw, HandleCloses
<1>2. Addresses'
  BY DEF IInv, Addresses, Throw, HandleCloses
<1>3. Opening'
  BY DEF IInv, Opening, Opened, TypeOK, Over, Interfaces, Throw, HandleCloses
<1>4. Claims'
  BY DEF IInv, Claims, Present, HasIap, HasVideo, TypeOK, Over, Interfaces,
        Throw, HandleCloses
<1>5. Modes'
  BY DEF IInv, Modes, Present, TypeOK, Over, Interfaces, Opening, Opened,
        Claims, HasIap, HasVideo, Throw, HandleCloses
<1>6. HoldersKnown'
  BY DEF IInv, HoldersKnown, HasIap, HasVideo, TypeOK, Over, Interfaces,
        Throw, HandleCloses
<1>7. DriverHalves'
  <2>1. ASSUME NEW c \in Cameras
        PROVE  /\ holder'[c]["iap"] = Driver <=> holder[c]["iap"] = Driver
               /\ holder'[c]["video"] = Driver <=> holder[c]["video"] = Driver
    BY DEF Throw, HandleCloses, Interfaces, IInv, TypeOK
  <2>2. ASSUME NEW c \in Cameras, holder[c]["video"] = Driver, holder[c]["iap"] # Driver
        PROVE  \E q \in Programs : handle'[q] = c /\ pc'[q] = "detach_video"
    <3>1. PICK q \in Programs : handle[q] = c /\ pc[q] = "detach_video"
      BY <2>2 DEF IInv, DriverHalves
    <3>2. q # p
      BY <3>1 DEF Throwing
    <3> QED BY <3>1, <3>2 DEF Throw, HandleCloses, IInv, TypeOK
  <2> QED BY <2>1, <2>2 DEF IInv, DriverHalves
<1>8. Unclaimed'
  BY DEF IInv, Unclaimed, TypeOK, Over, Interfaces, Opening, Opened,
        HoldersKnown, HasIap, HasVideo, Throw, HandleCloses
<1> QED BY <1>1, <1>2, <1>3, <1>4, <1>5, <1>6, <1>7, <1>8 DEF IInv

\* A camera that is opened is on the bus.
LEMMA OpenStep ==
  ASSUME IInv, NEW p \in Programs, Go(p, "open", "detach_iap"), target[p] \in plugged,
         handle' = [handle EXCEPT ![p] = target[p]], UNCHANGED <<camVars, conUnchanged>>
  PROVE  IInv'
<1>1. TypeOK'
  BY DEF IInv, TypeOK, Over, Interfaces
<1>2. Addresses'
  BY DEF IInv, Addresses
<1>3. Opening'
  BY DEF IInv, Opening, Opened, TypeOK, Over, Interfaces, Addresses
<1>4. Claims'
  BY DEF IInv, Claims, Present, HasIap, HasVideo, TypeOK, Over, Interfaces
<1>5. Modes'
  BY DEF IInv, Modes, Present, TypeOK, Over, Interfaces
<1>6. HoldersKnown'
  BY DEF IInv, HoldersKnown, HasIap, HasVideo, TypeOK, Over, Interfaces
<1>7. DriverHalves'
  BY DEF IInv, DriverHalves, TypeOK, Over, Interfaces
<1>8. Unclaimed'
  <2> SUFFICES ASSUME NEW c \in plugged', loaded',
                      holder'[c]["iap"] = Nobody, holder'[c]["video"] = Nobody,
                      \A q \in Programs : ~(pc'[q] = "dead" /\ target'[q] = c)
               PROVE  \E q \in Programs : handle'[q] = c /\ pc'[q] \in {"claim_iap", "attach"}
    BY Zenon DEF Unclaimed
  <2>1. holder[c]["iap"] = Nobody /\ holder[c]["video"] = Nobody
    BY DEF IInv, TypeOK
  <2>2. \A q \in Programs : ~(pc[q] = "dead" /\ target[q] = c)
    BY DEF IInv, TypeOK
  <2>3. PICK q \in Programs : handle[q] = c /\ pc[q] \in {"claim_iap", "attach"}
    BY <2>1, <2>2 DEF IInv, Unclaimed
  <2>4. q # p
    BY <2>3
  <2> QED BY <2>3, <2>4 DEF IInv, TypeOK
<1> QED BY <1>1, <1>2, <1>3, <1>4, <1>5, <1>6, <1>7, <1>8 DEF IInv

\* The program that takes the driver's first interface is about to take the second.
LEMMA DetachIapStep ==
  ASSUME IInv, NEW p \in Programs, DetachDriver(p), pc[p] = "detach_iap"
  PROVE  IInv'
<1>1. TypeOK'
  <2>1. handle[p] \in Cameras
    BY DEF IInv, Opening, Opened
  <2>2. DetachedFrom(handle[p], "iap") \in [Interfaces -> Programs \cup {Driver, Nobody}]
    BY <2>1 DEF DetachedFrom, IInv, TypeOK
  <2>3. holder' \in [Cameras -> [Interfaces -> Programs \cup {Driver, Nobody}]]
    BY <2>2 DEF DetachDriver, IInv, TypeOK
  <2> QED BY <2>3 DEF DetachDriver, IInv, TypeOK
<1>2. Addresses'
  BY DEF IInv, Addresses, DetachDriver, DetachedFrom
<1>3. Opening'
  BY DEF IInv, Opening, Opened, TypeOK, Over, Interfaces, DetachDriver,
        DetachedFrom
<1>4. Claims'
  BY DEF IInv, Claims, Present, HasIap, HasVideo, TypeOK, Over, Interfaces,
        DetachDriver, DetachedFrom
<1>5. Modes'
  BY DEF IInv, Modes, Present, TypeOK, Over, Interfaces, DetachDriver,
        DetachedFrom
<1>6. HoldersKnown'
  BY DEF IInv, HoldersKnown, HasIap, HasVideo, TypeOK, Over, Interfaces,
        DetachDriver, DetachedFrom
<1>7. DriverHalves'
  BY DEF IInv, DriverHalves, TypeOK, Over, Interfaces, DetachDriver,
        DetachedFrom
<1>8. Unclaimed'
  BY SMTT(60) DEF IInv, Unclaimed, TypeOK, Over, Interfaces, Opening, Opened,
        HoldersKnown, HasIap, HasVideo, DriverHalves, Addresses,
        DetachDriver, DetachedFrom
<1> QED BY <1>1, <1>2, <1>3, <1>4, <1>5, <1>6, <1>7, <1>8 DEF IInv

\* The program that takes the driver's second interface is about to claim the first.
LEMMA DetachVideoStep ==
  ASSUME IInv, NEW p \in Programs, DetachDriver(p), pc[p] = "detach_video"
  PROVE  IInv'
<1>1. TypeOK'
  BY DEF IInv, TypeOK, Over, Interfaces, DetachDriver, DetachedFrom
<1>2. Addresses'
  BY DEF IInv, Addresses, DetachDriver, DetachedFrom
<1>3. Opening'
  BY DEF IInv, Opening, Opened, TypeOK, Over, Interfaces, DetachDriver,
        DetachedFrom
<1>4. Claims'
  BY DEF IInv, Claims, Present, HasIap, HasVideo, TypeOK, Over, Interfaces,
        DetachDriver, DetachedFrom
<1>5. Modes'
  BY DEF IInv, Modes, Present, TypeOK, Over, Interfaces, DetachDriver,
        DetachedFrom
<1>6. HoldersKnown'
  BY DEF IInv, HoldersKnown, HasIap, HasVideo, TypeOK, Over, Interfaces,
        DetachDriver, DetachedFrom
<1>7. DriverHalves'
  BY DEF IInv, DriverHalves, TypeOK, Over, Interfaces, DetachDriver,
        DetachedFrom
<1>8. Unclaimed'
  BY DEF IInv, Unclaimed, TypeOK, Over, Interfaces, DetachDriver,
        DetachedFrom
<1> QED BY <1>1, <1>2, <1>3, <1>4, <1>5, <1>6, <1>7, <1>8 DEF IInv

\* A program that claims the first interface is no longer the one about to.
LEMMA ClaimIapStep ==
  ASSUME IInv, NEW p \in Programs, Go(p, "claim_iap", "claim_video"), Free(p, "iap"), Claimed(p, "iap")
  PROVE  IInv'
<1>1. TypeOK'
  <2>1. handle[p] \in Cameras
    BY DEF IInv, Opening, Opened
  <2>2. holder' \in [Cameras -> [Interfaces -> Programs \cup {Driver, Nobody}]]
    BY <2>1 DEF Claimed, IInv, TypeOK, Interfaces
  <2> QED BY <2>2 DEF Claimed, IInv, TypeOK
<1>2. Addresses'
  BY DEF IInv, Addresses, Free, Claimed, Present
<1>3. Opening'
  BY DEF IInv, Opening, Opened, TypeOK, Over, Interfaces, Free, Claimed,
        Present
<1>4. Claims'
  BY DEF IInv, Claims, Present, HasIap, HasVideo, TypeOK, Over, Interfaces,
        Free, Claimed, Present
<1>5. Modes'
  BY DEF IInv, Modes, Present, TypeOK, Over, Interfaces, Free, Claimed,
        Present
<1>6. HoldersKnown'
  BY DEF IInv, HoldersKnown, HasIap, HasVideo, TypeOK, Over, Interfaces,
        Free, Claimed, Present
<1>7. DriverHalves'
  BY DEF IInv, DriverHalves, TypeOK, Over, Interfaces, Free, Claimed, Present
<1>8. Unclaimed'
  <2> SUFFICES ASSUME NEW c \in plugged', loaded',
                      holder'[c]["iap"] = Nobody, holder'[c]["video"] = Nobody,
                      \A q \in Programs : ~(pc'[q] = "dead" /\ target'[q] = c)
               PROVE  \E q \in Programs : handle'[q] = c /\ pc'[q] \in {"claim_iap", "attach"}
    BY Zenon DEF Unclaimed
  <2>0. handle[p] # c
    BY DEF Claimed, Free, Present, IInv, TypeOK, Opening, Opened, Interfaces
  <2>1. holder[c]["iap"] = Nobody /\ holder[c]["video"] = Nobody
    BY <2>0 DEF Claimed, IInv, TypeOK
  <2>2. \A q \in Programs : ~(pc[q] = "dead" /\ target[q] = c)
    BY DEF Claimed, IInv, TypeOK
  <2>3. PICK q \in Programs : handle[q] = c /\ pc[q] \in {"claim_iap", "attach"}
    BY <2>1, <2>2 DEF Claimed, IInv, Unclaimed
  <2>4. q # p
    BY <2>3, <2>0
  <2> QED BY <2>3, <2>4 DEF Claimed, IInv, TypeOK
<1> QED BY <1>1, <1>2, <1>3, <1>4, <1>5, <1>6, <1>7, <1>8 DEF IInv

\* With the second interface the program is the only holder.
LEMMA ClaimVideoStep ==
  ASSUME IInv, NEW p \in Programs, Go(p, "claim_video", "alternate"), Free(p, "video"), Claimed(p, "video")
  PROVE  IInv'
<1>1. TypeOK'
  <2>1. handle[p] \in Cameras
    BY DEF IInv, Opening, Opened
  <2>2. holder' \in [Cameras -> [Interfaces -> Programs \cup {Driver, Nobody}]]
    BY <2>1 DEF Claimed, IInv, TypeOK, Interfaces
  <2> QED BY <2>2 DEF Claimed, IInv, TypeOK
<1>2. Addresses'
  BY DEF IInv, Addresses, Free, Claimed, Present
<1>3. Opening'
  BY DEF IInv, Opening, Opened, TypeOK, Over, Interfaces, Free, Claimed,
        Present
<1>4. Claims'
  BY DEF IInv, Claims, Present, HasIap, HasVideo, TypeOK, Over, Interfaces,
        Free, Claimed, Present
<1>5. Modes'
  BY DEF IInv, Modes, Present, TypeOK, Over, Interfaces, Free, Claimed,
        Present
<1>6. HoldersKnown'
  BY DEF IInv, HoldersKnown, HasIap, HasVideo, TypeOK, Over, Interfaces,
        Free, Claimed, Present
<1>7. DriverHalves'
  BY DEF IInv, DriverHalves, TypeOK, Over, Interfaces, Free, Claimed, Present
<1>8. Unclaimed'
  <2> SUFFICES ASSUME NEW c \in plugged', loaded',
                      holder'[c]["iap"] = Nobody, holder'[c]["video"] = Nobody,
                      \A q \in Programs : ~(pc'[q] = "dead" /\ target'[q] = c)
               PROVE  \E q \in Programs : handle'[q] = c /\ pc'[q] \in {"claim_iap", "attach"}
    BY Zenon DEF Unclaimed
  <2>0. handle[p] # c
    BY DEF Claimed, Free, Present, IInv, TypeOK, Opening, Opened, Interfaces
  <2>1. holder[c]["iap"] = Nobody /\ holder[c]["video"] = Nobody
    BY <2>0 DEF Claimed, IInv, TypeOK
  <2>2. \A q \in Programs : ~(pc[q] = "dead" /\ target[q] = c)
    BY DEF Claimed, IInv, TypeOK
  <2>3. PICK q \in Programs : handle[q] = c /\ pc[q] \in {"claim_iap", "attach"}
    BY <2>1, <2>2 DEF Claimed, IInv, Unclaimed
  <2>4. q # p
    BY <2>3, <2>0
  <2> QED BY <2>3, <2>4 DEF Claimed, IInv, TypeOK
<1> QED BY <1>1, <1>2, <1>3, <1>4, <1>5, <1>6, <1>7, <1>8 DEF IInv

\* Nobody else can elevate the camera of a program that has both interfaces.
LEMMA AlternateStep ==
  ASSUME IInv, NEW p \in Programs, Go(p, "alternate", "negotiate"), Present(p),
         alt' = [alt EXCEPT ![handle[p]] = 1], UNCHANGED <<holder, mode, handle, conUnchanged>>
  PROVE  IInv'
<1>1. TypeOK'
  BY DEF IInv, TypeOK, Over, Interfaces, Present
<1>2. Addresses'
  BY DEF IInv, Addresses, Present
<1>3. Opening'
  BY DEF IInv, Opening, Opened, TypeOK, Over, Interfaces, Present
<1>4. Claims'
  BY DEF IInv, Claims, Present, HasIap, HasVideo, TypeOK, Over, Interfaces,
        Present
<1>5. Modes'
  BY DEF IInv, Modes, Present, TypeOK, Over, Interfaces, Present
<1>6. HoldersKnown'
  BY DEF IInv, HoldersKnown, HasIap, HasVideo, TypeOK, Over, Interfaces,
        Present
<1>7. DriverHalves'
  BY DEF IInv, DriverHalves, TypeOK, Over, Interfaces, Present
<1>8. Unclaimed'
  <2> SUFFICES ASSUME NEW c \in plugged', loaded',
                      holder'[c]["iap"] = Nobody, holder'[c]["video"] = Nobody,
                      \A q \in Programs : ~(pc'[q] = "dead" /\ target'[q] = c)
               PROVE  \E q \in Programs : handle'[q] = c /\ pc'[q] \in {"claim_iap", "attach"}
    BY Zenon DEF Unclaimed
  <2>1. holder[c]["iap"] = Nobody /\ holder[c]["video"] = Nobody
    BY DEF IInv, TypeOK
  <2>2. \A q \in Programs : ~(pc[q] = "dead" /\ target[q] = c)
    BY DEF IInv, TypeOK
  <2>3. PICK q \in Programs : handle[q] = c /\ pc[q] \in {"claim_iap", "attach"}
    BY <2>1, <2>2 DEF IInv, Unclaimed
  <2>4. q # p
    BY <2>3
  <2> QED BY <2>3, <2>4 DEF IInv, TypeOK
<1> QED BY <1>1, <1>2, <1>3, <1>4, <1>5, <1>6, <1>7, <1>8 DEF IInv

\* Nobody else can set the mode of the camera of a program that has both interfaces.
LEMMA NegotiateStep ==
  ASSUME IInv, NEW p \in Programs, Go(p, "negotiate", "streaming"), Present(p),
         mode' = [mode EXCEPT ![handle[p]] = p], UNCHANGED <<holder, alt, handle, conUnchanged>>
  PROVE  IInv'
<1>1. TypeOK'
  BY DEF IInv, TypeOK, Over, Interfaces, Present
<1>2. Addresses'
  BY DEF IInv, Addresses, Present
<1>3. Opening'
  BY DEF IInv, Opening, Opened, TypeOK, Over, Interfaces, Present
<1>4. Claims'
  BY DEF IInv, Claims, Present, HasIap, HasVideo, TypeOK, Over, Interfaces,
        Present
<1>5. Modes'
  BY DEF IInv, Modes, Present, TypeOK, Over, Interfaces, Opening, Opened,
        Claims, HasIap, HasVideo, Present
<1>6. HoldersKnown'
  BY DEF IInv, HoldersKnown, HasIap, HasVideo, TypeOK, Over, Interfaces,
        Present
<1>7. DriverHalves'
  BY DEF IInv, DriverHalves, TypeOK, Over, Interfaces, Present
<1>8. Unclaimed'
  <2> SUFFICES ASSUME NEW c \in plugged', loaded',
                      holder'[c]["iap"] = Nobody, holder'[c]["video"] = Nobody,
                      \A q \in Programs : ~(pc'[q] = "dead" /\ target'[q] = c)
               PROVE  \E q \in Programs : handle'[q] = c /\ pc'[q] \in {"claim_iap", "attach"}
    BY Zenon DEF Unclaimed
  <2>1. holder[c]["iap"] = Nobody /\ holder[c]["video"] = Nobody
    BY DEF IInv, TypeOK
  <2>2. \A q \in Programs : ~(pc[q] = "dead" /\ target[q] = c)
    BY DEF IInv, TypeOK
  <2>3. PICK q \in Programs : handle[q] = c /\ pc[q] \in {"claim_iap", "attach"}
    BY <2>1, <2>2 DEF IInv, Unclaimed
  <2>4. q # p
    BY <2>3
  <2> QED BY <2>3, <2>4 DEF IInv, TypeOK
<1> QED BY <1>1, <1>2, <1>3, <1>4, <1>5, <1>6, <1>7, <1>8 DEF IInv

\* The first step of the end keeps both interfaces.
LEMMA HaltStep ==
  ASSUME IInv, NEW p \in Programs, haltHardware(p)
  PROVE  IInv'
<1>1. TypeOK'
  BY DEF IInv, TypeOK, Over, Interfaces, haltHardware
<1>2. Addresses'
  BY DEF IInv, Addresses, haltHardware
<1>3. Opening'
  BY DEF IInv, Opening, Opened, haltHardware
<1>4. Claims'
  BY DEF IInv, Claims, Present, HasIap, HasVideo, haltHardware
<1>5. Modes'
  BY DEF IInv, Modes, Present, haltHardware
<1>6. HoldersKnown'
  BY DEF IInv, HoldersKnown, HasIap, HasVideo, haltHardware
<1>7. DriverHalves'
  BY DEF IInv, DriverHalves, haltHardware
<1>8. Unclaimed'
  BY DEF IInv, Unclaimed, haltHardware
<1> QED BY <1>1, <1>2, <1>3, <1>4, <1>5, <1>6, <1>7, <1>8 DEF IInv

\* The other interface is still held.
LEMMA ReleaseIapStep ==
  ASSUME IInv, NEW p \in Programs, Go(p, "release_iap", "release_video"), Released(p, "iap")
  PROVE  IInv'
<1>1. TypeOK'
  <2>1. handle[p] \in Cameras
    BY DEF IInv, Opening, Opened
  <2>2. holder' \in [Cameras -> [Interfaces -> Programs \cup {Driver, Nobody}]]
    BY <2>1 DEF Released, IInv, TypeOK, Interfaces
  <2> QED BY <2>2 DEF Released, IInv, TypeOK
<1>2. Addresses'
  BY DEF IInv, Addresses, Released
<1>3. Opening'
  BY DEF IInv, Opening, Opened, TypeOK, Over, Interfaces, Released
<1>4. Claims'
  BY DEF IInv, Claims, Present, HasIap, HasVideo, TypeOK, Over, Interfaces,
        Released
<1>5. Modes'
  BY DEF IInv, Modes, Present, TypeOK, Over, Interfaces, Opening, Opened,
        Claims, HasIap, HasVideo, Released
<1>6. HoldersKnown'
  BY DEF IInv, HoldersKnown, HasIap, HasVideo, TypeOK, Over, Interfaces,
        Released
<1>7. DriverHalves'
  BY DEF IInv, DriverHalves, TypeOK, Over, Interfaces, Released
<1>8. Unclaimed'
  <2> SUFFICES ASSUME NEW c \in plugged', loaded',
                      holder'[c]["iap"] = Nobody, holder'[c]["video"] = Nobody,
                      \A q \in Programs : ~(pc'[q] = "dead" /\ target'[q] = c)
               PROVE  \E q \in Programs : handle'[q] = c /\ pc'[q] \in {"claim_iap", "attach"}
    BY Zenon DEF Unclaimed
  <2>0. handle[p] # c
    BY DEF Released, IInv, TypeOK, Opening, Opened, Interfaces, Claims, HasVideo, Present
  <2>1. holder[c]["iap"] = Nobody /\ holder[c]["video"] = Nobody
    BY <2>0 DEF Released, IInv, TypeOK
  <2>2. \A q \in Programs : ~(pc[q] = "dead" /\ target[q] = c)
    BY DEF Released, IInv, TypeOK
  <2>3. PICK q \in Programs : handle[q] = c /\ pc[q] \in {"claim_iap", "attach"}
    BY <2>1, <2>2 DEF Released, IInv, Unclaimed
  <2>4. q # p
    BY <2>3, <2>0
  <2> QED BY <2>3, <2>4 DEF Released, IInv, TypeOK
<1> QED BY <1>1, <1>2, <1>3, <1>4, <1>5, <1>6, <1>7, <1>8 DEF IInv

\* The program that releases the second interface is about to give the camera back.
LEMMA ReleaseVideoStep ==
  ASSUME IInv, NEW p \in Programs, Go(p, "release_video", "attach"), Released(p, "video")
  PROVE  IInv'
<1>1. TypeOK'
  <2>1. handle[p] \in Cameras
    BY DEF IInv, Opening, Opened
  <2>2. holder' \in [Cameras -> [Interfaces -> Programs \cup {Driver, Nobody}]]
    BY <2>1 DEF Released, IInv, TypeOK, Interfaces
  <2> QED BY <2>2 DEF Released, IInv, TypeOK
<1>2. Addresses'
  BY DEF IInv, Addresses, Released
<1>3. Opening'
  BY DEF IInv, Opening, Opened, TypeOK, Over, Interfaces, Released
<1>4. Claims'
  BY DEF IInv, Claims, Present, HasIap, HasVideo, TypeOK, Over, Interfaces,
        Opening, Opened, Released
<1>5. Modes'
  BY DEF IInv, Modes, Present, TypeOK, Over, Interfaces, Opening, Opened,
        Claims, HasIap, HasVideo, Released
<1>6. HoldersKnown'
  BY DEF IInv, HoldersKnown, HasIap, HasVideo, TypeOK, Over, Interfaces,
        Released
<1>7. DriverHalves'
  BY DEF IInv, DriverHalves, TypeOK, Over, Interfaces, Released
<1>8. Unclaimed'
  <2> SUFFICES ASSUME NEW c \in plugged', loaded',
                      holder'[c]["iap"] = Nobody, holder'[c]["video"] = Nobody,
                      \A q \in Programs : ~(pc'[q] = "dead" /\ target'[q] = c)
               PROVE  \E q \in Programs : handle'[q] = c /\ pc'[q] \in {"claim_iap", "attach"}
    BY Zenon DEF Unclaimed
  <2>1. CASE handle[p] = c
    BY <2>1 DEF Released, IInv, TypeOK
  <2>2. CASE handle[p] # c
    <3>1. holder[c]["iap"] = Nobody /\ holder[c]["video"] = Nobody
      BY <2>2 DEF Released, IInv, TypeOK
    <3>2. \A q \in Programs : ~(pc[q] = "dead" /\ target[q] = c)
      BY DEF Released, IInv, TypeOK
    <3>3. PICK q \in Programs : handle[q] = c /\ pc[q] \in {"claim_iap", "attach"}
      BY <3>1, <3>2 DEF Released, IInv, Unclaimed
    <3>4. q # p
      BY <3>3, <2>2
    <3> QED BY <3>3, <3>4 DEF Released, IInv, TypeOK
  <2> QED BY <2>1, <2>2
<1> QED BY <1>1, <1>2, <1>3, <1>4, <1>5, <1>6, <1>7, <1>8 DEF IInv

\* The driver takes a camera that is given back unless another program has a part of it.
LEMMA AttachStep ==
  ASSUME IInv, NEW p \in Programs, AttachDriver(p)
  PROVE  IInv'
<1>1. TypeOK'
  BY DEF IInv, TypeOK, Over, Interfaces, AttachDriver, Probed, BothWith
<1>2. Addresses'
  BY DEF IInv, Addresses, AttachDriver, Probed, BothWith
<1>3. Opening'
  BY DEF IInv, Opening, Opened, AttachDriver, Probed, BothWith
<1>4. Claims'
  BY DEF IInv, Claims, Present, HasIap, HasVideo, TypeOK, Over, Interfaces,
        AttachDriver, Probed, BothWith
<1>5. Modes'
  BY DEF IInv, Modes, Present, AttachDriver, Probed, BothWith
<1>6. HoldersKnown'
  BY DEF IInv, HoldersKnown, HasIap, HasVideo, TypeOK, Over, Interfaces,
        AttachDriver, Probed, BothWith
<1>7. DriverHalves'
  BY DEF IInv, DriverHalves, TypeOK, Over, Interfaces, AttachDriver, Probed,
        BothWith
<1>8. Unclaimed'
  BY DEF IInv, Unclaimed, TypeOK, Over, Interfaces, Opening, Opened, Claims,
        Present, HasIap, HasVideo, AttachDriver, Probed, BothWith
<1> QED BY <1>1, <1>2, <1>3, <1>4, <1>5, <1>6, <1>7, <1>8 DEF IInv

\* A program that closes its handle has given everything back.
LEMMA CloseStep ==
  ASSUME IInv, NEW p \in Programs, Close(p)
  PROVE  IInv'
<1>1. TypeOK'
  BY DEF IInv, TypeOK, Over, Interfaces, Close, HandleCloses
<1>2. Addresses'
  BY DEF IInv, Addresses, Close, HandleCloses
<1>3. Opening'
  BY DEF IInv, Opening, Opened, TypeOK, Over, Interfaces, Close, HandleCloses
<1>4. Claims'
  BY DEF IInv, Claims, Present, HasIap, HasVideo, TypeOK, Over, Interfaces,
        Close, HandleCloses
<1>5. Modes'
  BY DEF IInv, Modes, Present, TypeOK, Over, Interfaces, Opening, Opened,
        Claims, HasIap, HasVideo, Close, HandleCloses
<1>6. HoldersKnown'
  BY DEF IInv, HoldersKnown, HasIap, HasVideo, TypeOK, Over, Interfaces,
        Close, HandleCloses
<1>7. DriverHalves'
  BY DEF IInv, DriverHalves, TypeOK, Over, Interfaces, Close, HandleCloses
<1>8. Unclaimed'
  <2> SUFFICES ASSUME NEW c \in plugged', loaded',
                      holder'[c]["iap"] = Nobody, holder'[c]["video"] = Nobody,
                      \A q \in Programs : ~(pc'[q] = "dead" /\ target'[q] = c)
               PROVE  \E q \in Programs : handle'[q] = c /\ pc'[q] \in {"claim_iap", "attach"}
    BY Zenon DEF Unclaimed
  <2>1. holder[c]["iap"] = Nobody /\ holder[c]["video"] = Nobody
    BY SMTT(60) DEF Close, HandleCloses, HoldersKnown, HasIap, HasVideo, Interfaces, IInv, TypeOK
  <2>2. \A q \in Programs : ~(pc[q] = "dead" /\ target[q] = c)
    BY DEF Close, IInv, TypeOK
  <2>3. PICK q \in Programs : handle[q] = c /\ pc[q] \in {"claim_iap", "attach"}
    BY <2>1, <2>2 DEF Close, IInv, Unclaimed
  <2>4. q # p
    BY <2>3 DEF Close
  <2> QED BY <2>3, <2>4 DEF Close, HandleCloses, IInv, TypeOK
<1> QED BY <1>1, <1>2, <1>3, <1>4, <1>5, <1>6, <1>7, <1>8 DEF IInv

\* The options, the list and a signal concern no camera.
LEMMA QuietStep ==
  ASSUME IInv, NEW p \in Programs, ParseOptions(p) \/ listCameras(p) \/ Signal(p)
  PROVE  IInv'
<1>1. TypeOK'
  <2>1. CASE ParseOptions(p)
    BY <2>1 DEF IInv, TypeOK, Over, ParseOptions
  <2>2. CASE listCameras(p)
    <3>1. cameras' \in [Programs -> SUBSET Cameras]
      BY <2>2 DEF IInv, TypeOK, listCameras
    <3> QED BY <2>2, <3>1 DEF IInv, TypeOK, Over, listCameras
  <2>3. CASE Signal(p)
    BY <2>3 DEF IInv, TypeOK, Over, Signal
  <2> QED BY <2>1, <2>2, <2>3
<1>2. Addresses'
  BY DEF IInv, Addresses, ParseOptions, listCameras, Signal
<1>3. Opening'
  BY DEF IInv, Opening, Opened, TypeOK, Over, Interfaces, ParseOptions,
        listCameras, Signal
<1>4. Claims'
  BY DEF IInv, Claims, Present, HasIap, HasVideo, TypeOK, Over, Interfaces,
        ParseOptions, listCameras, Signal
<1>5. Modes'
  BY DEF IInv, Modes, Present, TypeOK, Over, Interfaces, ParseOptions,
        listCameras, Signal
<1>6. HoldersKnown'
  BY DEF IInv, HoldersKnown, HasIap, HasVideo, TypeOK, Over, Interfaces,
        ParseOptions, listCameras, Signal
<1>7. DriverHalves'
  BY DEF IInv, DriverHalves, TypeOK, Over, Interfaces, ParseOptions,
        listCameras, Signal
<1>8. Unclaimed'
  <2> SUFFICES ASSUME NEW c \in plugged', loaded',
                      holder'[c]["iap"] = Nobody, holder'[c]["video"] = Nobody,
                      \A q \in Programs : ~(pc'[q] = "dead" /\ target'[q] = c)
               PROVE  \E q \in Programs : handle'[q] = c /\ pc'[q] \in {"claim_iap", "attach"}
    BY Zenon DEF Unclaimed
  <2>1. UNCHANGED <<plugged, loaded, holder, handle, target>>
    BY DEF ParseOptions, listCameras, Signal
  <2>2. \A q \in Programs : ~(pc[q] = "dead" /\ target[q] = c)
    BY <2>1 DEF ParseOptions, listCameras, Signal, IInv, TypeOK
  <2>3. PICK q \in Programs : handle[q] = c /\ pc[q] \in {"claim_iap", "attach"}
    BY <2>1, <2>2 DEF IInv, Unclaimed
  <2> QED BY <2>1, <2>3 DEF ParseOptions, listCameras, Signal, IInv, TypeOK
<1> QED BY <1>1, <1>2, <1>3, <1>4, <1>5, <1>6, <1>7, <1>8 DEF IInv

\* Every step keeps the invariant.
LEMMA StepIInv == IInv /\ [Next]_vars => IInv'
<1> SUFFICES ASSUME IInv, [Next]_vars PROVE IInv'
  OBVIOUS
<1>1. CASE \E c \in Cameras : Plug(c) \/ Unplug(c)
  BY <1>1, PlugStep, UnplugStep
<1>2. CASE LoadDriver
  BY <1>2, LoadStep
<1>3. CASE \E p \in Programs : Signal(p) \/ ParseOptions(p) \/ listCameras(p)
  BY <1>3, QuietStep
<1>4. CASE \E p \in Programs : Choose(p)
  BY <1>4, ChooseStep
<1>5. ASSUME NEW p \in Programs, Constructor(p) PROVE IInv'
  <2>1. ASSUME Throw(p), pc[p] \in Throwing PROVE IInv'
    BY <2>1, ThrowStep
  <2>2. CASE DetachDriver(p)
    BY <2>2, DetachIapStep, DetachVideoStep DEF DetachDriver
  <2>3. CASE open(p) \/ ClaimIap(p) \/ ClaimVideo(p)
    BY <2>1, <2>3, OpenStep, ClaimIapStep, ClaimVideoStep DEF open, ClaimIap, ClaimVideo, Throwing
  <2>4. CASE SetAlternate(p) \/ Negotiate(p)
    BY <2>1, <2>4, AlternateStep, NegotiateStep DEF SetAlternate, Negotiate, Throwing
  <2> QED BY <1>5, <2>2, <2>3, <2>4 DEF Constructor
<1>6. CASE \E p \in Programs : haltHardware(p)
  BY <1>6, HaltStep
<1>7. ASSUME NEW p \in Programs, Destructor(p) PROVE IInv'
  BY <1>7, ReleaseIapStep, ReleaseVideoStep, AttachStep, CloseStep DEF Destructor, Release
<1>8. CASE Finished \/ UNCHANGED vars
  BY <1>8 DEF Finished, vars, IInv, TypeOK, Addresses, Opening, Claims, Modes,
        HoldersKnown, DriverHalves, Unclaimed, Present
<1> QED BY <1>1, <1>2, <1>3, <1>4, <1>5, <1>6, <1>7, <1>8 DEF Next, Proceed

LEMMA Inductive == Spec => []IInv
<1> QED BY InitIInv, StepIInv, PTL DEF Spec

\* Every variable of UsbCamera keeps its type.
THEOREM CameraTypeCorrect == Spec => []TypeOK
<1>1. IInv => TypeOK
  BY DEF IInv
<1> QED BY <1>1, Inductive, PTL

\* A camera that a program commands is that program's alone (usb_camera.cpp:33), in
\* the alternate setting and the mode it has set, whoever plugs, loads, starts and
\* dies meanwhile.
THEOREM OneCommander == Spec => []SoleCommander
<1>1. IInv => SoleCommander
  BY DEF IInv, SoleCommander, Commanding, Claims, Modes, HasIap, HasVideo, BothWith,
        TypeOK, Interfaces, Present
<1> QED BY <1>1, Inductive, PTL

\* A camera that no program has open any more is the kernel driver's again
\* (usb_camera.cpp:94), unless a program died that had it.
THEOREM ReturnedToTheOS == Spec => []GivenBack
<1>1. ASSUME IInv, NEW c \in plugged, loaded,
             \A p \in Programs : handle[p] # c /\ ~(pc[p] = "dead" /\ target[p] = c)
      PROVE  holder[c] = BothWith(Driver)
  <2>1. holder[c]["iap"] \notin Programs /\ holder[c]["video"] \notin Programs
    BY <1>1 DEF IInv, HoldersKnown, TypeOK
  <2>2. ~(holder[c]["iap"] = Nobody /\ holder[c]["video"] = Nobody)
    BY <1>1 DEF IInv, Unclaimed
  <2>3. holder[c]["iap"] = Driver <=> holder[c]["video"] = Driver
    BY <1>1 DEF IInv, DriverHalves, TypeOK
  <2>4. holder[c]["iap"] = Driver /\ holder[c]["video"] = Driver
    BY <1>1, <2>1, <2>2, <2>3 DEF IInv, TypeOK, Interfaces
  <2> QED BY <1>1, <2>4 DEF IInv, TypeOK, BothWith, Interfaces
<1>2. IInv => GivenBack
  BY <1>1 DEF GivenBack
<1> QED BY <1>2, Inductive, PTL

\* Only the program whose handle is open on a camera changes who holds it, its alternate
\* setting and its mode by a call to libusb.
LEMMA OnlyItsOwn ==
  ASSUME IInv, NEW p \in Programs, Constructor(p) \/ Destructor(p), NEW c \in Cameras,
         c # target[p]
  PROVE  UNCHANGED <<holder[c], alt[c], mode[c]>>
<1>1. /\ pc[p] \in Opened => handle[p] = target[p]
      /\ holder[c]["iap"] # p /\ holder[c]["video"] # p
  BY DEF IInv, Opening, HoldersKnown, HasIap, HasVideo, Opened
<1>2. holder \in [Cameras -> [Interfaces -> Programs \cup {Driver, Nobody}]]
  BY DEF IInv, TypeOK
<1>3. CASE HandleCloses(p) /\ UNCHANGED mode
  <2>1. alt'[c] = alt[c]
    BY <1>1, <1>3 DEF HandleCloses
  <2>2. holder'[c] = [i \in Interfaces |-> IF holder[c][i] = p THEN Nobody ELSE holder[c][i]]
    BY <1>3 DEF HandleCloses
  <2>3. holder'[c] = holder[c]
    BY <1>1, <1>2, <2>2 DEF Interfaces
  <2> QED BY <1>3, <2>1, <2>3
<1>4. CASE Throw(p) \/ Close(p)
  BY <1>3, <1>4 DEF Throw, Close
<1>5. CASE UNCHANGED camVars
  BY <1>5
<1>6. CASE DetachDriver(p)
  BY <1>1, <1>2, <1>6 DEF DetachDriver, Opened
<1>7. CASE (ClaimIap(p) \/ ClaimVideo(p)) /\ ~Throw(p)
  BY <1>1, <1>2, <1>7 DEF ClaimIap, ClaimVideo, Claimed, Opened
<1>8. CASE (SetAlternate(p) \/ Negotiate(p)) /\ ~Throw(p)
  BY <1>1, <1>2, <1>8 DEF SetAlternate, Negotiate, Opened, IInv, TypeOK
<1>9. CASE Release(p)
  BY <1>1, <1>2, <1>9 DEF Release, Released, Opened, IInv, TypeOK
<1>10. CASE AttachDriver(p)
  BY <1>1, <1>2, <1>10 DEF AttachDriver, Opened
<1>11. CASE open(p) /\ ~Throw(p)
  BY <1>11 DEF open
<1> QED BY <1>4, <1>6, <1>7, <1>8, <1>9, <1>10, <1>11 DEF Constructor, Destructor

\* Each step of a constructor or a destructor is one of its program.
LEMMA CallMoves ==
  ASSUME IInv, NEW p \in Programs, Constructor(p) \/ Destructor(p)
  PROVE  pc'[p] # pc[p] /\ target' = target
BY DEF Constructor, Destructor, open, DetachDriver, ClaimIap, ClaimVideo, SetAlternate,
      Negotiate, Claimed, Throw, Release, Released, AttachDriver, Close, IInv, TypeOK

\* A program disturbs no camera but the one that was chosen from its list
\* (libusb_server.cpp:116), for any programs and cameras.
THEOREM NoOtherDisturbed == Spec => OthersUntouched
<1> DEFINE Step ==
      \A c \in plugged \cap plugged' :
          <<holder[c], alt[c], mode[c]>>' # <<holder[c], alt[c], mode[c]>> =>
              \/ loaded' # loaded
              \/ \E p \in Programs : pc'[p] # pc[p] /\ target[p] = c
<1>1. ASSUME IInv, Next PROVE Step
  <2> SUFFICES ASSUME NEW c \in plugged \cap plugged'
               PROVE  \/ UNCHANGED <<holder[c], alt[c], mode[c]>>
                      \/ loaded' # loaded
                      \/ \E p \in Programs : pc'[p] # pc[p] /\ target[p] = c
    OBVIOUS
  <2>1. c \in Cameras
    BY <1>1 DEF IInv, TypeOK
  <2>2. ASSUME NEW d \in Cameras, Plug(d) PROVE UNCHANGED <<holder[c], alt[c], mode[c]>>
    BY <1>1, <2>1, <2>2 DEF Plug, IInv, Addresses, TypeOK
  <2>3. ASSUME NEW d \in Cameras, Unplug(d) PROVE UNCHANGED <<holder[c], alt[c], mode[c]>>
    BY <1>1, <2>1, <2>3 DEF Unplug, IInv, TypeOK
  <2>4. LoadDriver => loaded' # loaded
    <3>1. LoadDriver => loaded' = TRUE /\ loaded = FALSE
      BY <1>1, Zenon DEF LoadDriver, IInv, TypeOK
    <3>2. TRUE # FALSE
      OBVIOUS
    <3> QED BY <3>1, <3>2, Zenon
  <2>5. ASSUME NEW p \in Programs,
               Signal(p) \/ ParseOptions(p) \/ Choose(p) \/ listCameras(p) \/ haltHardware(p)
        PROVE  UNCHANGED <<holder[c], alt[c], mode[c]>>
    BY <2>5 DEF Signal, ParseOptions, Choose, listCameras, haltHardware
  <2>6. ASSUME NEW p \in Programs, Constructor(p) \/ Destructor(p)
        PROVE  \/ UNCHANGED <<holder[c], alt[c], mode[c]>>
               \/ \E q \in Programs : pc'[q] # pc[q] /\ target[q] = c
    BY <1>1, <2>1, <2>6, OnlyItsOwn, CallMoves
  <2>7. Finished => UNCHANGED <<holder[c], alt[c], mode[c]>>
    BY DEF Finished, vars
  <2> QED BY <1>1, <2>2, <2>3, <2>4, <2>5, <2>6, <2>7 DEF Next, Proceed
<1>2. IInv /\ [Next]_vars => [Step]_vars
  BY <1>1
<1> QED BY <1>2, Inductive, PTL DEF Spec, OthersUntouched
=============================================================================
