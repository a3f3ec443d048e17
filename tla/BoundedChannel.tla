--------------------------- MODULE BoundedChannel ---------------------------
(***************************************************************************)
(* What the disruptor promises its two threads, with no ring, no sequence  *)
(* number and no waiting: a first-in first-out channel in which at most    *)
(* Capacity items are outstanding.  An item stays outstanding after it has *)
(* been read, until the consumer gives its whole batch back.               *)
(***************************************************************************)
EXTENDS Naturals, Sequences

CONSTANTS Items,      \* what is sent
          NoItem,     \* what the consumer has read before its first read
          Capacity    \* how many items may be outstanding

VARIABLES queue,      \* items sent and not yet read, oldest first
          held,       \* how many items are read and not yet given back
          got         \* the item read last

chanVars == <<queue, held, got>>

ChanInit ==
    /\ queue = <<>>
    /\ held = 0
    /\ got = NoItem

Send(x) ==
    /\ Len(queue) + held < Capacity
    /\ queue' = Append(queue, x)
    /\ UNCHANGED <<held, got>>

Receive ==
    /\ queue # <<>>
    /\ got' = Head(queue)
    /\ queue' = Tail(queue)
    /\ held' = held + 1

GiveBack ==
    /\ held > 0
    /\ held' = 0
    /\ UNCHANGED <<queue, got>>

ChanNext == (\E x \in Items : Send(x)) \/ Receive \/ GiveBack

ChanSafety == ChanInit /\ [][ChanNext]_chanVars

\* The consumer keeps reading what is there and keeps giving back what it read.
ChanSpec == ChanSafety /\ WF_chanVars(Receive) /\ WF_chanVars(GiveBack)
=============================================================================
