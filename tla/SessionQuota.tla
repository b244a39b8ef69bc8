---------------------------- MODULE SessionQuota ----------------------------
(***************************************************************************)
(* What the session manager promises about the per-user limit, with no     *)
(* clock, no map and no clean-up: a session id that counts against the     *)
(* limit has one holder, an id is taken only by a user below the limit,    *)
(* and an id that stops counting is free until it is taken anew.           *)
(* SessionManager is shown to implement this module.                       *)
(***************************************************************************)
EXTENDS Naturals, FiniteSets

CONSTANTS
    Users,               \* user names
    SessionIds,          \* the identifiers the generator can draw
    MaxSessionsPerUser,  \* MAX_SESSIONS_PER_USER
    Nobody               \* the holder of an id that does not count

VARIABLE holder          \* holder[id]: the user the id counts against

Held(u) == {id \in SessionIds : holder[id] = u}

Init == holder = [id \in SessionIds |-> Nobody]

\* A user below the limit takes one free id.
Admit(u, id) ==
    /\ holder[id] = Nobody
    /\ Cardinality(Held(u)) < MaxSessionsPerUser
    /\ holder' = [holder EXCEPT ![id] = u]

\* Any number of ids stop counting at once: one termination, or the moment
\* at which several sessions reach their deadline together.
Release(ids) ==
    holder' = [id \in SessionIds |-> IF id \in ids THEN Nobody ELSE holder[id]]

Next ==
    \/ \E u \in Users, id \in SessionIds : Admit(u, id)
    \/ \E ids \in SUBSET SessionIds : Release(ids)

Spec == Init /\ [][Next]_holder
=============================================================================
