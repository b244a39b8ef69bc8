-------------------------------- MODULE Relay --------------------------------
(***************************************************************************)
(* What a proxy connection promises of one of its two directions, with no  *)
(* sockets, handlers or buffers: the units its source sends, numbered in   *)
(* the order in which they are sent, reach the other side in that order,   *)
(* each once, and nothing is taken from the source before what was taken   *)
(* earlier has been handed on.  A relay may stop at any point.             *)
(***************************************************************************)
EXTENDS Naturals, Sequences

CONSTANT Chunk       \* the most units one read takes

VARIABLES
    taken,           \* how many units were read from the source
    delivered        \* the units written to the other side, in order

Init == taken = 0 /\ delivered = << >>

Take(n) ==
    /\ Len(delivered) = taken
    /\ taken' = taken + n
    /\ UNCHANGED delivered

Deliver(n) ==
    /\ Len(delivered) + n <= taken
    /\ delivered' = delivered \o [i \in 1..n |-> Len(delivered) + i]
    /\ UNCHANGED taken

Next == \E n \in 1..Chunk : Take(n) \/ Deliver(n)

Spec == Init /\ [][Next]_<<taken, delivered>>
=============================================================================
