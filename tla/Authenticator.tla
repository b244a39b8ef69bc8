---------------------------- MODULE Authenticator ----------------------------
(***************************************************************************)
(* zerossg::AuthenticationManager without its user table (which is part of *)
(* Gateway): the limiter of login attempts, the tokens and their           *)
(* revocation, called by several threads.                                  *)
(*                                                                         *)
(* Two of its tables are touched without mutual exclusion.  authenticate   *)
(* counts an attempt under a shared lock, so a load and the store of the   *)
(* sum are two steps between which another thread may count.  And          *)
(* m_revoked_tokens is written under m_tokens_mutex and read by            *)
(* validate_token under m_revoked_tokens_mutex: a lookup that overlaps a   *)
(* write is a data race, and here may come out either way.                 *)
(*                                                                         *)
(* A token is the text of its payload with a signature: who it is for, the *)
(* second it was made in and, since the two payloads differ, which of      *)
(* authenticate and generate_token made it.  The same token may be made    *)
(* twice.  Clock values are seconds; the clock does not step back.         *)
(***************************************************************************)
EXTENDS Integers, FiniteSets

CONSTANTS
    Threads, NoThread,
    Users,
    Nothing,             \* what a thread without a call works on
    MaxLoginAttempts,    \* MAX_LOGIN_ATTEMPTS
    TokenExpiryTime,     \* TOKEN_EXPIRY_TIME
    MaxTime,             \* bound: the last second
    MaxAttempts,         \* bound: attempts recorded per user
    MaxIssued            \* bound: different tokens made

Token == [user : Users, iat : Nat, by : {"authenticate", "generate_token"}]

ASSUME AuthenticatorAssumption ==
    /\ MaxLoginAttempts \in Nat /\ TokenExpiryTime \in Nat
    /\ MaxTime \in Nat /\ MaxAttempts \in Nat /\ MaxIssued \in Nat
    /\ NoThread \notin Threads
    /\ Nothing \notin Users

VARIABLES
    m_attempts,          \* m_rate_limits[user].m_attempts
    m_revoked_tokens,    \* token -> expiry of the entry
    m_tokens_mutex,      \* the thread that holds it across steps
    now,
    pc, subject,         \* where a thread is, and the user or token of its call
    loaded,              \* the count, or the time, that the call read earlier
    raced,               \* a write overlaps the lookup of the thread
    answer,              \* the refusal, or the validation, last returned
    issued,              \* tokens made
    recorded,            \* history: attempts that went past the limiter
    revoked,             \* history: tokens whose revocation returned
    mustReject           \* history: the token to validate was one of them,
                         \*   and not expired, when the validation began

attemptVars == <<m_attempts, recorded>>
tokenVars == <<m_revoked_tokens, m_tokens_mutex, revoked>>
callVars == <<pc, subject, loaded, raced, answer, mustReject>>
vars == <<attemptVars, tokenVars, now, callVars, issued>>

MutexFree == m_tokens_mutex = NoThread
Expired(token) == token.iat + TokenExpiryTime < now

Init ==
    /\ m_attempts = [u \in Users |-> 0]
    /\ m_revoked_tokens = << >>
    /\ m_tokens_mutex = NoThread
    /\ now = 0
    /\ pc = [t \in Threads |-> "idle"]
    /\ subject = [t \in Threads |-> Nothing]
    /\ loaded = [t \in Threads |-> 0]
    /\ raced = [t \in Threads |-> FALSE]
    /\ answer = [t \in Threads |-> "none"]
    /\ issued = {}
    /\ recorded = [u \in Users |-> 0]
    /\ revoked = {}
    /\ mustReject = [t \in Threads |-> FALSE]

Tick ==
    /\ now < MaxTime
    /\ now' = now + 1
    /\ UNCHANGED <<attemptVars, tokenVars, callVars, issued>>

\* A call of thread t on x has done its first step, or its last.
Begin(t, step, x, value) ==
    /\ pc[t] = "idle"
    /\ pc' = [pc EXCEPT ![t] = step]
    /\ subject' = [subject EXCEPT ![t] = x]
    /\ loaded' = [loaded EXCEPT ![t] = value]
    /\ answer' = [answer EXCEPT ![t] = "none"]

Return(t, result) ==
    /\ pc' = [pc EXCEPT ![t] = "idle"]
    /\ loaded' = [loaded EXCEPT ![t] = 0]
    /\ subject' = [subject EXCEPT ![t] = Nothing]
    /\ raced' = [raced EXCEPT ![t] = FALSE]
    /\ mustReject' = [mustReject EXCEPT ![t] = FALSE]
    /\ answer' = [answer EXCEPT ![t] = result]

-----------------------------------------------------------------------------
(* authenticate                                                            *)

\* RateLimitInfo::should_block, which is not in src/.
ShouldBlock(u) == m_attempts[u] >= MaxLoginAttempts

\* The limiter refuses.
AuthenticateLocked(t, u) ==
    /\ pc[t] = "idle"
    /\ ShouldBlock(u)
    /\ subject' = [subject EXCEPT ![t] = u]
    /\ answer' = [answer EXCEPT ![t] = "account_locked"]
    /\ UNCHANGED <<attemptVars, tokenVars, now, pc, loaded, raced, mustReject, issued>>

\* The limiter lets the attempt pass; m_attempts++ has loaded the count.
AuthenticateBegins(t, u) ==
    /\ ~ShouldBlock(u)
    /\ recorded[u] < MaxAttempts
    /\ Begin(t, "recording", u, m_attempts[u])
    /\ UNCHANGED <<attemptVars, tokenVars, now, raced, mustReject, issued>>

\* m_attempts++ stores the sum.
RecordAttempt(t) ==
    /\ pc[t] = "recording"
    /\ m_attempts' = [m_attempts EXCEPT ![subject[t]] = loaded[t] + 1]
    /\ recorded' = [recorded EXCEPT ![subject[t]] = @ + 1]
    /\ pc' = [pc EXCEPT ![t] = "verifying"]
    /\ UNCHANGED <<tokenVars, now, subject, loaded, raced, answer, mustReject, issued>>

\* Faulty: a failure is counted once more.
AuthenticateRefused_Counts(t) ==
    /\ pc[t] = "verifying"
    /\ m_attempts' = [m_attempts EXCEPT ![subject[t]] = @ + 1]
    /\ Return(t, "none")
    /\ UNCHANGED <<recorded, tokenVars, now, issued>>

\* No such user, an inactive one, or the wrong password.  Nothing fills
\* m_blocked_users, and neither a failure nor a success resets the count.
AuthenticateRefused(t) ==
    /\ pc[t] = "verifying"
    /\ Return(t, "none")
    /\ UNCHANGED <<attemptVars, tokenVars, now, issued>>

MakeToken(u, maker) ==
    /\ issued' = issued \cup {[user |-> u, iat |-> now, by |-> maker]}
    /\ Cardinality(issued') <= MaxIssued

AuthenticateGranted(t) ==
    /\ pc[t] = "verifying"
    /\ MakeToken(subject[t], "authenticate")
    /\ Return(t, "none")
    /\ UNCHANGED <<attemptVars, tokenVars, now>>

GenerateToken(t, u) ==
    /\ pc[t] = "idle"
    /\ MakeToken(u, "generate_token")
    /\ UNCHANGED <<attemptVars, tokenVars, now, callVars>>

-----------------------------------------------------------------------------
(* Tokens                                                                  *)

\* A write to m_revoked_tokens begins: every lookup under way is overlapped.
LockTokens(t) ==
    /\ MutexFree
    /\ m_tokens_mutex' = t
    /\ raced' = [v \in Threads |-> raced[v] \/ pc[v] = "validating"]

\* revoke_token has the mutex and has computed when the entry expires.
RevokeBegins(t, token) ==
    /\ LockTokens(t)
    /\ Begin(t, "revoking", token, now + TokenExpiryTime)
    /\ UNCHANGED <<attemptVars, m_revoked_tokens, revoked, now, mustReject, issued>>

\* revoke_token
RevokeToken(t) ==
    /\ pc[t] = "revoking"
    /\ m_revoked_tokens' = [x \in DOMAIN m_revoked_tokens \cup {subject[t]} |->
                               IF x = subject[t] THEN loaded[t] ELSE m_revoked_tokens[x]]
    /\ revoked' = revoked \cup {subject[t]}
    /\ m_tokens_mutex' = NoThread
    /\ Return(t, "none")
    /\ UNCHANGED <<attemptVars, now, issued>>

\* cleanup_expired_tokens reads the clock, and then waits for the mutex.
CleanupBegins(t) ==
    /\ Begin(t, "waiting", Nothing, now)
    /\ UNCHANGED <<attemptVars, tokenVars, now, raced, mustReject, issued>>

\* Faulty: a shared lock is thought to be enough.
CleanupLocks_Shared(t) ==
    /\ pc[t] = "waiting"
    /\ raced' = [v \in Threads |-> raced[v] \/ pc[v] = "validating"]
    /\ pc' = [pc EXCEPT ![t] = "sweeping"]
    /\ UNCHANGED <<attemptVars, tokenVars, now, subject, loaded, answer, mustReject, issued>>

CleanupLocks(t) ==
    /\ pc[t] = "waiting"
    /\ LockTokens(t)
    /\ pc' = [pc EXCEPT ![t] = "sweeping"]
    /\ UNCHANGED <<attemptVars, m_revoked_tokens, revoked, now, subject, loaded, answer,
                   mustReject, issued>>

\* Faulty: an entry in its last second goes.
CleanupExpiredTokens_Boundary(t) ==
    /\ pc[t] = "sweeping"
    /\ m_revoked_tokens' = [x \in {y \in DOMAIN m_revoked_tokens :
                                      m_revoked_tokens[y] > loaded[t]} |-> m_revoked_tokens[x]]
    /\ m_tokens_mutex' = NoThread
    /\ Return(t, "none")
    /\ UNCHANGED <<attemptVars, revoked, now, issued>>

CleanupExpiredTokens(t) ==
    /\ pc[t] = "sweeping"
    /\ m_revoked_tokens' = [x \in {y \in DOMAIN m_revoked_tokens :
                                      m_revoked_tokens[y] >= loaded[t]} |-> m_revoked_tokens[x]]
    /\ m_tokens_mutex' = NoThread
    /\ Return(t, "none")
    /\ UNCHANGED <<attemptVars, revoked, now, issued>>

\* validate_token begins its lookup.  It looks neither at the signature nor
\* at the expiry of the token.
ValidateBegins(t, token) ==
    /\ Begin(t, "validating", token, 0)
    /\ raced' = [raced EXCEPT ![t] = ~MutexFree]
    /\ mustReject' = [mustReject EXCEPT ![t] = token \in revoked /\ ~Expired(token)]
    /\ UNCHANGED <<attemptVars, tokenVars, now, issued>>

ValidateToken(t) ==
    /\ pc[t] = "validating"
    /\ \/ /\ raced[t] \/ subject[t] \in DOMAIN m_revoked_tokens
          /\ Return(t, "token_revoked")
       \/ /\ raced[t] \/ subject[t] \notin DOMAIN m_revoked_tokens
          /\ Return(t, "valid")
    /\ UNCHANGED <<attemptVars, tokenVars, now, issued>>

-----------------------------------------------------------------------------
Next ==
    \/ Tick
    \/ \E t \in Threads :
          \/ \E u \in Users :
                AuthenticateLocked(t, u) \/ AuthenticateBegins(t, u) \/ GenerateToken(t, u)
          \/ RecordAttempt(t) \/ AuthenticateRefused(t) \/ AuthenticateGranted(t)
          \/ \E token \in issued : RevokeBegins(t, token) \/ ValidateBegins(t, token)
          \/ RevokeToken(t)
          \/ CleanupBegins(t) \/ CleanupLocks(t) \/ CleanupExpiredTokens(t)
          \/ ValidateToken(t)

Spec == Init /\ [][Next]_vars

-----------------------------------------------------------------------------
TypeOK ==
    /\ m_attempts \in [Users -> Nat]
    /\ DOMAIN m_revoked_tokens \subseteq issued
    /\ \A x \in DOMAIN m_revoked_tokens : m_revoked_tokens[x] \in Nat
    /\ m_tokens_mutex \in Threads \cup {NoThread}
    /\ now \in 0..MaxTime
    /\ pc \in [Threads -> {"idle", "recording", "verifying", "revoking", "waiting",
                           "sweeping", "validating"}]
    /\ subject \in [Threads -> issued \cup Users \cup {Nothing}]
    /\ \A t \in Threads :
          /\ pc[t] \in {"revoking", "sweeping"} <=> m_tokens_mutex = t
          /\ pc[t] \in {"recording", "verifying"} => subject[t] \in Users
          /\ pc[t] \in {"revoking", "validating"} => subject[t] \in issued
    /\ loaded \in [Threads -> Nat]
    /\ raced \in [Threads -> BOOLEAN]
    /\ answer \in [Threads -> {"none", "account_locked", "token_revoked", "valid"}]
    /\ issued \subseteq Token
    /\ recorded \in [Users -> Nat]
    /\ revoked \subseteq issued
    /\ mustReject \in [Threads -> BOOLEAN]

\* Counts are lost when attempts overlap, but none is made up: an account is
\* locked only when as many attempts as the limit went on to the password.
LockedOnlyAfterAttempts ==
    \A t \in Threads :
        answer[t] = "account_locked" => recorded[subject[t]] >= MaxLoginAttempts

\* A token whose revocation had returned when the validation began is
\* rejected for as long as the token itself lasts, whatever was revoked or
\* swept since, unless a write overlapped the lookup.
RevokedIsRejected ==
    [][\A t \in Threads :
          pc[t] = "validating" /\ answer'[t] = "valid" => raced[t] \/ ~mustReject[t]]_vars
=============================================================================
