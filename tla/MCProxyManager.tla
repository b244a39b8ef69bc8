--------------------------- MODULE MCProxyManager ---------------------------
(* Instances of ProxyManager for TLC. *)
EXTENDS ProxyManager, TLC

CONSTANTS c1, c2

\* One connection with traffic both ways, so that reads of the two directions
\* race and two chunks follow each other, and a younger one with a single unit.
MCUnits == (c1 :> [client |-> 2, target |-> 1]) @@ (c2 :> [client |-> 0, target |-> 1])
=============================================================================
