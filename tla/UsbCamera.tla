----------------------------- MODULE UsbCamera ------------------------------
(***************************************************************************)
(* How the user-space programs take a camera from the kernel driver and    *)
(* give it back: UsbCamera::listCameras and the choice in main() of        *)
(* libusb_server, the constructor of UsbCamera call by call, its           *)
(* destructor, and what the death of a program leaves.                     *)
(*                                                                         *)
(* Contenders for a camera are the kernel driver (driver/useeplus_core.c,  *)
(* as far as its up_probe and up_disconnect take and give up interfaces)   *)
(* and any number of programs.  What a program does with a camera it has   *)
(* is LibusbServer; here it is one state.                                  *)
(***************************************************************************)
EXTENDS Integers, FiniteSets

CONSTANTS
    Programs,          \* running instances of libusb_server
    Cameras,           \* bus addresses; one that is unplugged comes back at another
    Driver,            \* the kernel driver, as a holder of interfaces
    Nobody             \* no holder, or no camera

ASSUME HoldersAssumption ==
    /\ Driver \notin Programs /\ Nobody \notin Programs \cup Cameras \cup {Driver}

VARIABLES
    loaded,            \* the kernel driver's module is there
    fresh, plugged,    \* addresses not used yet, cameras on the bus
    holder,            \* who has each interface of each camera
    alt, mode,         \* the video interface's alternate setting; whose COMMIT it took
    pc,                \* where each program is
    running,           \* its global flag
    cameras,           \* what listCameras returned, until the choice
    target,            \* the camera that was chosen
    handle             \* the camera that deviceHandle_ is open on

busVars == <<loaded, fresh, plugged>>
camVars == <<holder, alt, mode>>
choiceVars == <<cameras, target>>
vars == <<busVars, camVars, pc, running, choiceVars, handle>>

Interfaces == {"iap", "video"}

BothWith(h) == [i \in Interfaces |-> h]

\* What the driver does with a camera that is offered to it: up_probe takes the
\* video interface if it can claim the other one.
Probed(c) == IF holder[c] = BothWith(Nobody) THEN BothWith(Driver) ELSE holder[c]

Init ==
    /\ loaded \in BOOLEAN
    /\ plugged = {} /\ fresh = Cameras
    /\ holder = [c \in Cameras |-> BothWith(Nobody)]
    /\ alt = [c \in Cameras |-> 0] /\ mode = [c \in Cameras |-> Nobody]
    /\ pc = [p \in Programs |-> "options"]
    /\ running = [p \in Programs |-> TRUE]
    /\ cameras = [p \in Programs |-> {}]
    /\ target = [p \in Programs |-> Nobody]
    /\ handle = [p \in Programs |-> Nobody]

-----------------------------------------------------------------------------
(* The bus, the administrator and the user's signal.                       *)

Plug(c) ==
    /\ c \in fresh
    /\ fresh' = fresh \ {c} /\ plugged' = plugged \cup {c}
    /\ holder' = [holder EXCEPT ![c] = IF loaded THEN Probed(c) ELSE @]
    /\ UNCHANGED <<loaded, alt, mode, pc, running, choiceVars, handle>>

Unplug(c) ==
    /\ c \in plugged
    /\ plugged' = plugged \ {c}
    /\ holder' = [holder EXCEPT ![c] = BothWith(Nobody)]
    /\ alt' = [alt EXCEPT ![c] = 0] /\ mode' = [mode EXCEPT ![c] = Nobody]
    /\ UNCHANGED <<loaded, fresh, pc, running, choiceVars, handle>>

\* A module that is loaded is offered every camera without a driver.
LoadDriver ==
    /\ ~loaded
    /\ loaded' = TRUE
    /\ holder' = [c \in Cameras |-> IF c \in plugged THEN Probed(c) ELSE holder[c]]
    /\ UNCHANGED <<fresh, plugged, alt, mode, pc, running, choiceVars, handle>>

Over == {"ended", "dead"}

\* signalHandler, once it is installed.
Signal(p) ==
    /\ pc[p] \notin Over \cup {"options"} /\ running[p]
    /\ running' = [running EXCEPT ![p] = FALSE]
    /\ UNCHANGED <<busVars, camVars, pc, choiceVars, handle>>

-----------------------------------------------------------------------------
(* main() of libusb_server: options, discovery, choice.                    *)

Go(p, from, to) == pc[p] = from /\ pc' = [pc EXCEPT ![p] = to]

\* The options are taken, or the program ends: --help, an unknown resolution, a bad port.
ParseOptions(p) ==
    /\ Go(p, "options", "list") \/ Go(p, "options", "ended")
    /\ UNCHANGED <<busVars, camVars, running, choiceVars, handle>>

\* Of the cameras on the bus those whose descriptor can be read; none when libusb
\* cannot be initialised or has no list.
listCameras(p) ==
    /\ \E found \in SUBSET plugged :
          /\ cameras' = [cameras EXCEPT ![p] = found]
          /\ Go(p, "list", IF found = {} THEN "ended" ELSE "choice")
    /\ UNCHANGED <<busVars, camVars, running, target, handle>>

\* The only camera, or the one the user names; the prompt is repeated until then, and
\* does not look at the flag.
Choose(p) ==
    /\ Go(p, "choice", "open")
    /\ \E c \in cameras[p] : target' = [target EXCEPT ![p] = c]
    /\ cameras' = [cameras EXCEPT ![p] = {}]
    /\ UNCHANGED <<busVars, camVars, running, handle>>

-----------------------------------------------------------------------------
(* UsbCamera's constructor.                                                *)

conUnchanged == <<busVars, running, choiceVars>>

Present(p) == handle[p] \in plugged

\* What p still holds of its camera goes with the handle; an interface that loses its
\* holder goes to alternate setting 0.
HandleCloses(p) ==
    /\ holder' = [c \in Cameras |->
                     [i \in Interfaces |->
                         IF holder[c][i] = p THEN Nobody ELSE holder[c][i]]]
    /\ alt' = [c \in Cameras |-> IF holder[c]["video"] = p THEN 0 ELSE alt[c]]
    /\ handle' = [handle EXCEPT ![p] = Nobody]

\* An exception of the constructor leaves it, and the worker thread that called it:
\* std::terminate.  The destructor does not run; the kernel closes what was open.
Throw(p) ==
    /\ pc' = [pc EXCEPT ![p] = "dead"]
    /\ HandleCloses(p)
    /\ UNCHANGED <<mode, conUnchanged>>

\* Faulty: takes any camera that can be opened.
open_AnyAddress(p) ==
    \/ /\ Go(p, "open", "detach_iap")
       /\ \E c \in plugged : handle' = [handle EXCEPT ![p] = c]
       /\ UNCHANGED <<camVars, conUnchanged>>
    \/ pc[p] = "open" /\ Throw(p)

\* libusb_init, and the device with that bus number and address if it can be opened.
open(p) ==
    \/ /\ Go(p, "open", "detach_iap")
       /\ target[p] \in plugged
       /\ handle' = [handle EXCEPT ![p] = target[p]]
       /\ UNCHANGED <<camVars, conUnchanged>>
    \/ pc[p] = "open" /\ Throw(p)

\* What is left of the driver's hold when it is detached from interface i: its
\* up_disconnect ignores the iAP interface, and gives up both with the other.
DetachedFrom(c, i) ==
    IF holder[c][i] # Driver THEN holder[c]
    ELSE [j \in Interfaces |->
             IF j = i \/ (i = "video" /\ holder[c][j] = Driver) THEN Nobody
             ELSE holder[c][j]]

DetachDriver(p) ==
    /\ \/ /\ Go(p, "detach_iap", "detach_video")
          /\ holder' = [holder EXCEPT ![handle[p]] = DetachedFrom(handle[p], "iap")]
       \/ /\ Go(p, "detach_video", "claim_iap")
          /\ holder' = [holder EXCEPT ![handle[p]] = DetachedFrom(handle[p], "video")]
    /\ UNCHANGED <<alt, mode, handle, conUnchanged>>

Free(p, i) == Present(p) /\ holder[handle[p]][i] = Nobody

\* The interface becomes p's.
Claimed(p, i) ==
    /\ holder' = [holder EXCEPT ![handle[p]][i] = p]
    /\ UNCHANGED <<alt, mode, handle, conUnchanged>>

\* Faulty: goes on without the interface.
ClaimIap_Unchecked(p) ==
    \/ Go(p, "claim_iap", "claim_video") /\ Free(p, "iap") /\ Claimed(p, "iap")
    \/ /\ Go(p, "claim_iap", "claim_video") /\ ~Free(p, "iap")
       /\ UNCHANGED <<camVars, handle, conUnchanged>>

ClaimIap(p) ==
    \/ Go(p, "claim_iap", "claim_video") /\ Free(p, "iap") /\ Claimed(p, "iap")
    \/ pc[p] = "claim_iap" /\ ~Free(p, "iap") /\ Throw(p)

ClaimVideo(p) ==
    \/ Go(p, "claim_video", "alternate") /\ Free(p, "video") /\ Claimed(p, "video")
    \/ pc[p] = "claim_video" /\ ~Free(p, "video") /\ Throw(p)

\* The endpoints are cleared and the heartbeats drained; then the video interface is
\* elevated.
SetAlternate(p) ==
    \/ /\ Go(p, "alternate", "negotiate") /\ Present(p)
       /\ alt' = [alt EXCEPT ![handle[p]] = 1]
       /\ UNCHANGED <<holder, mode, handle, conUnchanged>>
    \/ pc[p] = "alternate" /\ Throw(p)

\* PROBE and COMMIT of the mode; then authentication and the start command, of which
\* it is not asked whether they arrive.
Negotiate(p) ==
    \/ /\ Go(p, "negotiate", "streaming") /\ Present(p)
       /\ mode' = [mode EXCEPT ![handle[p]] = p]
       /\ UNCHANGED <<holder, alt, handle, conUnchanged>>
    \/ pc[p] = "negotiate" /\ Throw(p)

Constructor(p) ==
    \/ open(p) \/ DetachDriver(p) \/ ClaimIap(p) \/ ClaimVideo(p)
    \/ SetAlternate(p) \/ Negotiate(p)

-----------------------------------------------------------------------------
(* The end: a signal or the loss of the camera, and the destructor.        *)

\* The worker leaves its loop, tells the camera to stop and drains: the steps between are
\* those of LibusbServer, where a transfer that finds no device clears the flag.  A program
\* may stay in "streaming" for ever, for there the worker may (LibusbServer_full_ring.cfg),
\* and nothing that is said below rests on its leaving.
haltHardware(p) ==
    /\ Go(p, "streaming", "release_iap")
    /\ ~running[p] \/ ~Present(p)
    /\ running' = [running EXCEPT ![p] = FALSE]
    /\ UNCHANGED <<busVars, camVars, choiceVars, handle>>

\* The interface is no longer p's.
Released(p, i) ==
    /\ holder' = [holder EXCEPT ![handle[p]][i] = IF @ = p THEN Nobody ELSE @]
    /\ alt' = [alt EXCEPT ![handle[p]] = 0]
    /\ UNCHANGED <<mode, handle, conUnchanged>>

\* The video interface is parked at alternate setting 0, the iAP interface released,
\* then the video interface.
Release(p) ==
    \/ Go(p, "release_iap", "release_video") /\ Released(p, "iap")
    \/ Go(p, "release_video", "attach") /\ Released(p, "video")

\* Faulty: only the iAP interface is offered to the driver.
AttachDriver_IapOnly(p) ==
    Go(p, "attach", "close") /\ UNCHANGED <<camVars, handle, conUnchanged>>

\* up_probe refuses the iAP interface by itself, and takes both with the other.
AttachDriver(p) ==
    /\ Go(p, "attach", "close")
    /\ holder' = [holder EXCEPT ![handle[p]] =
                     IF loaded /\ Present(p) THEN Probed(handle[p]) ELSE @]
    /\ UNCHANGED <<alt, mode, handle, conUnchanged>>

Close(p) ==
    /\ Go(p, "close", "ended")
    /\ HandleCloses(p)
    /\ UNCHANGED <<mode, conUnchanged>>

Destructor(p) == Release(p) \/ AttachDriver(p) \/ Close(p)

-----------------------------------------------------------------------------
\* The steps a program takes by itself.
Proceed(p) == listCameras(p) \/ Constructor(p) \/ haltHardware(p) \/ Destructor(p)

\* Every program has ended.
Finished == (\A p \in Programs : pc[p] \in Over) /\ UNCHANGED vars

Next ==
    \/ \E c \in Cameras : Plug(c) \/ Unplug(c)
    \/ LoadDriver
    \/ \E p \in Programs : Signal(p) \/ ParseOptions(p) \/ Choose(p) \/ Proceed(p)
    \/ Finished

Spec == Init /\ [][Next]_vars

-----------------------------------------------------------------------------
\* Type correctness.
TypeOK ==
    /\ loaded \in BOOLEAN
    /\ fresh \subseteq Cameras /\ plugged \subseteq Cameras
    /\ holder \in [Cameras -> [Interfaces -> Programs \cup {Driver, Nobody}]]
    /\ alt \in [Cameras -> {0, 1}] /\ mode \in [Cameras -> Programs \cup {Nobody}]
    /\ pc \in [Programs -> {"options", "list", "choice", "open", "detach_iap",
                  "detach_video", "claim_iap", "claim_video", "alternate", "negotiate",
                  "streaming", "release_iap", "release_video", "attach", "close"} \cup Over]
    /\ running \in [Programs -> BOOLEAN]
    /\ cameras \in [Programs -> SUBSET Cameras]
    /\ target \in [Programs -> Cameras \cup {Nobody}]
    /\ handle \in [Programs -> Cameras \cup {Nobody}]

Commanding == {"alternate", "negotiate", "streaming"}

\* "You cannot have two active connections to the exact same physical camera": a
\* program that commands a camera has both its interfaces, the kernel driver and the
\* other programs none, and once the constructor has returned the camera is elevated
\* and in the mode that was asked for, however others start, end and die beside it.
SoleCommander ==
    \A p \in Programs : pc[p] \in Commanding /\ Present(p) =>
        /\ holder[handle[p]] = BothWith(p)
        /\ pc[p] = "streaming" => alt[handle[p]] = 1 /\ mode[handle[p]] = p

\* A program disturbs no camera but the one that was chosen from its list, whatever is
\* plugged and unplugged while the user decides.
OthersUntouched ==
    [][\A c \in plugged \cap plugged' :
          <<holder[c], alt[c], mode[c]>>' # <<holder[c], alt[c], mode[c]>> =>
              \/ loaded' # loaded
              \/ \E p \in Programs : pc'[p] # pc[p] /\ target[p] = c]_vars

\* "Give the camera back to the OS": a camera that no program has open is the kernel
\* driver's, if there is one, unless a program died that had it.
GivenBack ==
    \A c \in plugged :
        loaded /\ (\A p \in Programs : handle[p] # c /\ ~(pc[p] = "dead" /\ target[p] = c))
            => holder[c] = BothWith(Driver)
=============================================================================
