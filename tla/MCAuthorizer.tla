---------------------------- MODULE MCAuthorizer ----------------------------
(* Instances of Authorizer for TLC. *)
EXTENDS Authorizer, TLC

\* A part of the default services and permissions: services for the
\* administrators and for everyone, one permission every role has and one the
\* viewers lack.
MCDefaultServices ==
    [s \in Services |-> IF s = "database-internal" THEN {"ADMIN"} ELSE Roles]
MCDefaultPermissions ==
    [r \in Roles |-> Permissions \ (IF r = "VIEWER" THEN {"session.create"} ELSE {})]
MCAllowedRoles == {{"ADMIN", "OPERATOR"}}
MCAssignable == {<<"ADMIN", "session.create">>}
MCEdges == {<<"VIEWER", "ADMIN">>, <<"OPERATOR", "ADMIN">>}
MCSymmetry == Permutations(Callers)
=============================================================================
