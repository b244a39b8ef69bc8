-------------------------- MODULE MCSessionManager --------------------------
(* Instances of SessionManager for TLC. *)
EXTENDS SessionManager, TLC

\* An extension may be negative: additional_time is a signed duration that
\* extend_session does not check.
MCExtensions == {-1, 2}

\* Users and ids are interchangeable in every definition that is checked.
MCSymmetry == Permutations(Users) \cup Permutations(SessionIds)
=============================================================================
