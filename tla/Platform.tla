----------------------------- MODULE Platform ------------------------------
(***************************************************************************)
(* What the other modules share.                                           *)
(***************************************************************************)
EXTENDS Integers, Sequences, FiniteSets

CONSTANTS
    OrderId,        \* order ids
    NoOrder,        \* not an order
    Faults          \* whether a statement may fail, or the process die, in a run

ASSUME PlatformAssumption ==
    /\ NoOrder \notin OrderId
    /\ Faults \in BOOLEAN

=============================================================================
