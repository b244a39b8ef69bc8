----------------------------- MODULE MCGateway -----------------------------
(* Instances of Gateway for TLC. *)
EXTENDS Gateway, TLC

CONSTANTS admin, viewer, database, web

\* Two roles and two services are enough for a role to lose a service: the
\* database is open to the administrators, the web console to everyone.
MCAllowed == {<<admin, database>>, <<admin, web>>, <<viewer, web>>} \cap (Roles \X Services)

MCSymmetry == Permutations(Connections) \cup Permutations(SessionIds)
              \cup Permutations(Users)
=============================================================================
