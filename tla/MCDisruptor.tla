---------------------------- MODULE MCDisruptor -----------------------------
(* Disruptor on a ring of Capacity slots, wrapped more than once. *)
EXTENDS Disruptor

CONSTANTS i1, i2

MCItems == {i1, i2}
=============================================================================
