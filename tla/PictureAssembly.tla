--------------------------- MODULE PictureAssembly --------------------------
(***************************************************************************)
(* What the readers of the ring are promised of the pictures in it: one    *)
(* for each frame that is over, in the order of the frames, made of the    *)
(* fragments handed over for that frame and of nothing else; an empty one  *)
(* for a frame that was interrupted.  There are no slots here, nothing is  *)
(* used again.                                                             *)
(***************************************************************************)
EXTENDS Naturals, Sequences

VARIABLES
    callbacks,     \* those the decoder has made, records of ev and arg
    open,          \* a frame has started and is not over
    picture,       \* its image so far; empty when none is open
    shown          \* the pictures of the frames that are over

vars == <<callbacks, open, picture, shown>>

Init ==
    /\ callbacks = <<>>
    /\ open = FALSE
    /\ picture = <<>>
    /\ shown = <<>>

\* The callback that is the n-th to be made from here.
New(n) == callbacks'[Len(callbacks) + n]

Made(kinds) ==
    /\ Len(callbacks') = Len(callbacks) + Len(kinds)
    /\ \A n \in 1 .. Len(callbacks) : callbacks'[n] = callbacks[n]
    /\ \A n \in 1 .. Len(kinds) : New(n).ev = kinds[n]

Start ==
    /\ Made(<<"start">>)
    /\ ~open /\ open'
    /\ UNCHANGED <<picture, shown>>

\* Another frame starts before the end of this one has been seen.
Interrupt ==
    /\ Made(<<"incomplete", "start">>)
    /\ open
    /\ picture' = <<>>
    /\ shown' = Append(shown, <<>>)
    /\ UNCHANGED open

Extend ==
    /\ Made(<<"fragment">>)
    /\ open
    /\ picture' = picture \o New(1).arg
    /\ UNCHANGED <<open, shown>>

Complete ==
    /\ Made(<<"fragment", "complete">>)
    /\ open /\ ~open'
    /\ picture' = <<>>
    /\ shown' = Append(shown, picture \o New(1).arg)

Next == Start \/ Interrupt \/ Extend \/ Complete

Spec == Init /\ [][Next]_vars
=============================================================================
