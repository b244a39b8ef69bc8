------------------------- MODULE AuthenticatorProofs -------------------------
(***************************************************************************)
(* For any number of users and threads, and any limit and lifetime: types, *)
(* an account is locked only after enough attempts, and a revoked token is *)
(* rejected although the lookup and the writers use different mutexes.     *)
(***************************************************************************)
EXTENDS Authenticator, TLAPS

USE AuthenticatorAssumption DEF AuthenticatorAssumption

-----------------------------------------------------------------------------
(* Types, and who holds the mutex.                                         *)

LEMMA TypeStep ==
    ASSUME TypeOK, [Next]_vars
    PROVE  TypeOK'
<1> USE DEF TypeOK, attemptVars, tokenVars, callVars
<1>1. CASE Tick
  BY <1>1 DEF Tick
<1>2. ASSUME NEW t \in Threads, NEW u \in Users,
             AuthenticateLocked(t, u) \/ AuthenticateBegins(t, u)
      PROVE  TypeOK'
  BY <1>2 DEF AuthenticateLocked, AuthenticateBegins, Begin
<1>3. ASSUME NEW t \in Threads, RecordAttempt(t)
      PROVE  TypeOK'
  BY <1>3 DEF RecordAttempt
<1>4. ASSUME NEW t \in Threads, AuthenticateRefused(t)
      PROVE  TypeOK'
  BY <1>4 DEF AuthenticateRefused, Return
<1>5. ASSUME NEW t \in Threads, NEW u \in Users, GenerateToken(t, u)
      PROVE  TypeOK'
  BY <1>5 DEF GenerateToken, MakeToken, Token
<1>6. ASSUME NEW t \in Threads, AuthenticateGranted(t)
      PROVE  TypeOK'
  BY <1>6 DEF AuthenticateGranted, MakeToken, Return, Token
<1>7. ASSUME NEW t \in Threads, NEW token \in issued, RevokeBegins(t, token)
      PROVE  TypeOK'
  BY <1>7 DEF RevokeBegins, LockTokens, MutexFree, Begin
<1>8. ASSUME NEW t \in Threads, NEW token \in issued, ValidateBegins(t, token)
      PROVE  TypeOK'
  BY <1>8 DEF ValidateBegins, Begin, MutexFree, Expired
<1>9. ASSUME NEW t \in Threads, RevokeToken(t)
      PROVE  TypeOK'
  BY <1>9 DEF RevokeToken, Return
<1>10. ASSUME NEW t \in Threads, CleanupBegins(t)
       PROVE  TypeOK'
  BY <1>10 DEF CleanupBegins, Begin
<1>11. ASSUME NEW t \in Threads, CleanupLocks(t)
       PROVE  TypeOK'
  BY <1>11 DEF CleanupLocks, LockTokens, MutexFree
<1>12. ASSUME NEW t \in Threads, CleanupExpiredTokens(t)
       PROVE  TypeOK'
  BY <1>12 DEF CleanupExpiredTokens, Return
<1>13. ASSUME NEW t \in Threads, ValidateToken(t)
       PROVE  TypeOK'
  <2>1. PICK r \in {"token_revoked", "valid"} : Return(t, r)
    BY <1>13 DEF ValidateToken
  <2>2. UNCHANGED <<attemptVars, tokenVars, now, issued>> /\ pc[t] = "validating"
    BY <1>13 DEF ValidateToken
  <2> QED
    BY <2>1, <2>2 DEF Return
<1>14. CASE UNCHANGED vars
  BY <1>14 DEF vars
<1> QED
  BY <1>1, <1>2, <1>3, <1>4, <1>5, <1>6, <1>7, <1>8, <1>9, <1>10, <1>11, <1>12, <1>13,
     <1>14 DEF Next

\* Every reachable state is well typed; a thread holds m_tokens_mutex exactly
\* while it revokes or sweeps.
THEOREM TypeCorrect == Spec => []TypeOK
<1>1. Init => TypeOK
  BY DEF Init, TypeOK
<1> QED
  BY <1>1, TypeStep, PTL DEF Spec

-----------------------------------------------------------------------------
(* The limiter.                                                            *)

\* The count may lag behind the attempts that were recorded and never runs ahead
\* of them; what a thread has loaded is at most what was recorded since.
CountInv ==
    /\ TypeOK
    /\ \A u \in Users : m_attempts[u] <= recorded[u]
    /\ \A t \in Threads :
          /\ pc[t] = "recording" => loaded[t] <= recorded[subject[t]]
          /\ answer[t] = "account_locked" =>
                subject[t] \in Users /\ recorded[subject[t]] >= MaxLoginAttempts

LEMMA CountStep ==
    ASSUME CountInv, [Next]_vars
    PROVE  CountInv'
<1> USE DEF CountInv, TypeOK, attemptVars
<1>1. TypeOK'
  BY TypeStep
<1>2. CASE UNCHANGED <<attemptVars, pc, subject, loaded, answer>>
  BY <1>1, <1>2
<1>3. ASSUME NEW t \in Threads, NEW u \in Users,
             AuthenticateLocked(t, u) \/ AuthenticateBegins(t, u)
      PROVE  CountInv'
  BY <1>1, <1>3 DEF AuthenticateLocked, AuthenticateBegins, Begin, ShouldBlock
<1>4. ASSUME NEW t \in Threads, RecordAttempt(t)
      PROVE  CountInv'
  BY <1>1, <1>4 DEF RecordAttempt
<1>5. ASSUME NEW t \in Threads, NEW step \in {"revoking", "validating", "waiting"}, NEW x,
             NEW value, Begin(t, step, x, value), UNCHANGED attemptVars
      PROVE  CountInv'
  BY <1>1, <1>5 DEF Begin
<1>6. ASSUME NEW t \in Threads, NEW r \in {"none", "token_revoked", "valid"},
             Return(t, r), UNCHANGED attemptVars
      PROVE  CountInv'
  BY <1>1, <1>6 DEF Return
<1>7. CASE Tick \/ UNCHANGED vars
  BY <1>2, <1>7 DEF Tick, callVars, vars
<1>8. ASSUME NEW t \in Threads, CleanupLocks(t)
      PROVE  CountInv'
  BY <1>1, <1>8 DEF CleanupLocks
<1>9. ASSUME NEW t \in Threads, NEW u \in Users, GenerateToken(t, u)
      PROVE  CountInv'
  BY <1>2, <1>9 DEF GenerateToken, callVars
<1>10. ASSUME NEW t \in Threads,
              \/ AuthenticateRefused(t) \/ AuthenticateGranted(t) \/ RevokeToken(t)
              \/ CleanupExpiredTokens(t) \/ ValidateToken(t)
       PROVE  CountInv'
  BY <1>6, <1>10 DEF AuthenticateRefused, AuthenticateGranted, RevokeToken,
                     CleanupExpiredTokens, ValidateToken
<1>11. ASSUME NEW t \in Threads, NEW token \in issued,
              RevokeBegins(t, token) \/ ValidateBegins(t, token)
       PROVE  CountInv'
  BY <1>5, <1>11 DEF RevokeBegins, ValidateBegins
<1>12. ASSUME NEW t \in Threads, CleanupBegins(t)
       PROVE  CountInv'
  BY <1>5, <1>12 DEF CleanupBegins
<1> QED
  BY <1>3, <1>4, <1>7, <1>8, <1>9, <1>10, <1>11, <1>12 DEF Next

\* An account is locked only when as many attempts as the limit were let through,
\* however the threads that count them overlap.
THEOREM LockedOnlyAfterAttemptsHolds == Spec => []LockedOnlyAfterAttempts
<1>1. Init => CountInv
  BY DEF Init, CountInv, TypeOK
<1>2. CountInv => LockedOnlyAfterAttempts
  BY DEF CountInv, LockedOnlyAfterAttempts
<1> QED
  BY <1>1, <1>2, CountStep, PTL DEF Spec

-----------------------------------------------------------------------------
(* Revocation.                                                             *)

\* The entry of a revoked token outlasts the token, and a sweep compares with a
\* time that is past; a lookup that no write overlaps began when nobody held the
\* mutex, and still sees what it would have seen then.
RevocationInv ==
    /\ TypeOK
    /\ \A x \in issued : x.iat <= now
    /\ \A x \in revoked : ~Expired(x) =>
          x \in DOMAIN m_revoked_tokens /\ m_revoked_tokens[x] >= x.iat + TokenExpiryTime
    /\ \A t \in Threads :
          /\ pc[t] # "idle" => answer[t] = "none"
          /\ pc[t] = "revoking" => loaded[t] >= subject[t].iat + TokenExpiryTime
          /\ pc[t] \in {"waiting", "sweeping"} => loaded[t] <= now
          /\ pc[t] = "validating" /\ ~raced[t] =>
                MutexFree /\ (mustReject[t] => subject[t] \in DOMAIN m_revoked_tokens)

\* Who holds no mutex writes no entry.
LEMMA RevocationStep ==
    ASSUME RevocationInv, [Next]_vars
    PROVE  RevocationInv'
<1> USE DEF RevocationInv, TypeOK, attemptVars, tokenVars, callVars, Expired, MutexFree
<1>1. TypeOK'
  BY TypeStep
<1>2. \A x \in issued : x.iat \in Nat
  BY DEF Token
<1>3. CASE Tick
  BY <1>1, <1>2, <1>3 DEF Tick
<1>4. ASSUME NEW t \in Threads, NEW u \in Users, AuthenticateLocked(t, u)
      PROVE  RevocationInv'
  BY <1>1, <1>4 DEF AuthenticateLocked
<1>5. ASSUME NEW t \in Threads, NEW u \in Users, AuthenticateBegins(t, u)
      PROVE  RevocationInv'
  BY <1>1, <1>5 DEF AuthenticateBegins, Begin
<1>6. ASSUME NEW t \in Threads, RecordAttempt(t)
      PROVE  RevocationInv'
  BY <1>1, <1>6 DEF RecordAttempt
<1>7. ASSUME NEW t \in Threads, AuthenticateRefused(t)
      PROVE  RevocationInv'
  BY <1>1, <1>7 DEF AuthenticateRefused, Return
<1>8. ASSUME NEW t \in Threads, AuthenticateGranted(t)
      PROVE  RevocationInv'
  BY <1>1, <1>8 DEF AuthenticateGranted, MakeToken, Return
<1>9. ASSUME NEW t \in Threads, NEW u \in Users, GenerateToken(t, u)
      PROVE  RevocationInv'
  BY <1>1, <1>9 DEF GenerateToken, MakeToken
<1>10. ASSUME NEW t \in Threads, NEW token \in issued, RevokeBegins(t, token)
       PROVE  RevocationInv'
  <2>1. /\ pc' = [pc EXCEPT ![t] = "revoking"]
        /\ subject' = [subject EXCEPT ![t] = token]
        /\ loaded' = [loaded EXCEPT ![t] = now + TokenExpiryTime]
        /\ answer' = [answer EXCEPT ![t] = "none"]
        /\ UNCHANGED <<m_revoked_tokens, revoked, now, issued, mustReject>>
    BY <1>10 DEF RevokeBegins, Begin
  <2>2. \A v \in Threads : pc'[v] = "validating" => raced'[v]
    BY <1>10, <2>1 DEF RevokeBegins, LockTokens
  <2>3. token.iat <= now /\ token.iat \in Nat
    BY <1>2
  <2>4. \A v \in Threads : pc'[v] = "revoking" =>
            loaded'[v] >= subject'[v].iat + TokenExpiryTime
    BY <2>1, <2>3
  <2> QED
    BY <1>1, <2>1, <2>2, <2>4
<1>11. ASSUME NEW t \in Threads, RevokeToken(t)
       PROVE  RevocationInv'
  BY <1>1, <1>2, <1>11 DEF RevokeToken, Return
<1>12. ASSUME NEW t \in Threads, CleanupBegins(t)
       PROVE  RevocationInv'
  BY <1>1, <1>12 DEF CleanupBegins, Begin
<1>13. ASSUME NEW t \in Threads, CleanupLocks(t)
       PROVE  RevocationInv'
  BY <1>1, <1>13 DEF CleanupLocks, LockTokens
<1>14. ASSUME NEW t \in Threads, CleanupExpiredTokens(t)
       PROVE  RevocationInv'
  BY <1>1, <1>2, <1>14 DEF CleanupExpiredTokens, Return
<1>15. ASSUME NEW t \in Threads, NEW token \in issued, ValidateBegins(t, token)
       PROVE  RevocationInv'
  <2>1. /\ pc' = [pc EXCEPT ![t] = "validating"]
        /\ subject' = [subject EXCEPT ![t] = token]
        /\ loaded' = [loaded EXCEPT ![t] = 0]
        /\ answer' = [answer EXCEPT ![t] = "none"]
        /\ UNCHANGED <<tokenVars, now, issued>>
    BY <1>15 DEF ValidateBegins, Begin
  <2>2. /\ raced'[t] = ~MutexFree
        /\ mustReject'[t] = (token \in revoked /\ ~Expired(token))
        /\ \A v \in Threads \ {t} : raced'[v] = raced[v] /\ mustReject'[v] = mustReject[v]
    BY <1>15 DEF ValidateBegins
  <2>3. ~raced'[t] => MutexFree' /\ (mustReject'[t] => token \in DOMAIN m_revoked_tokens)
    BY <2>1, <2>2
  <2> QED
    BY <1>1, <2>1, <2>2, <2>3
<1>16. ASSUME NEW t \in Threads, ValidateToken(t)
       PROVE  RevocationInv'
  <2>1. PICK r \in {"token_revoked", "valid"} : Return(t, r)
    BY <1>16 DEF ValidateToken
  <2>2. UNCHANGED <<attemptVars, tokenVars, now, issued>>
    BY <1>16 DEF ValidateToken
  <2> QED
    BY <1>1, <2>1, <2>2 DEF Return
<1>17. CASE UNCHANGED vars
  BY <1>1, <1>17 DEF vars
<1> QED
  BY <1>3, <1>4, <1>5, <1>6, <1>7, <1>8, <1>9, <1>10, <1>11, <1>12, <1>13, <1>14, <1>15,
     <1>16, <1>17 DEF Next

\* Only a validation answers that a token is valid.
LEMMA ValidFromValidation ==
    ASSUME TypeOK, [Next]_vars, NEW t \in Threads,
           answer[t] # "valid", answer'[t] = "valid"
    PROVE  ValidateToken(t)
<1> USE DEF TypeOK
<1>1. ASSUME NEW v \in Threads, NEW step, NEW x, NEW value, Begin(v, step, x, value)
      PROVE  FALSE
  BY <1>1 DEF Begin
<1>2. ASSUME NEW v \in Threads, Return(v, "none")
      PROVE  FALSE
  BY <1>2 DEF Return
<1>3. ASSUME NEW v \in Threads, NEW u \in Users, AuthenticateLocked(v, u)
      PROVE  FALSE
  BY <1>3 DEF AuthenticateLocked
<1>4. ASSUME NEW v \in Threads, ValidateToken(v)
      PROVE  ValidateToken(t)
  <2>1. v # t => answer'[t] = answer[t]
    BY <1>4 DEF ValidateToken, Return
  <2> QED
    BY <1>4, <2>1
<1>5. answer' # answer
  OBVIOUS
<1>6. ~Tick /\ ~UNCHANGED vars
  BY <1>5 DEF Tick, callVars, vars
<1>7. ASSUME NEW v \in Threads
      PROVE  /\ ~RecordAttempt(v) /\ ~CleanupLocks(v)
             /\ \A u \in Users : ~GenerateToken(v, u)
  BY <1>5 DEF RecordAttempt, CleanupLocks, GenerateToken, callVars
<1>8. ASSUME NEW v \in Threads
      PROVE  /\ ~AuthenticateRefused(v) /\ ~AuthenticateGranted(v)
             /\ ~RevokeToken(v) /\ ~CleanupExpiredTokens(v)
  BY <1>2 DEF AuthenticateRefused, AuthenticateGranted, RevokeToken, CleanupExpiredTokens
<1>9. ASSUME NEW v \in Threads
      PROVE  /\ ~CleanupBegins(v)
             /\ \A u \in Users : ~AuthenticateBegins(v, u)
             /\ \A x \in issued : ~RevokeBegins(v, x) /\ ~ValidateBegins(v, x)
  BY <1>1 DEF CleanupBegins, AuthenticateBegins, RevokeBegins, ValidateBegins
<1> QED
  BY <1>3, <1>4, <1>6, <1>7, <1>8, <1>9 DEF Next

\* A token whose revocation had returned is rejected for as long as it lasts,
\* unless a write overlaps the lookup, for any number of threads that revoke,
\* sweep and validate.
THEOREM RevokedIsRejectedHolds == Spec => RevokedIsRejected
<1>1. Init => RevocationInv
  BY DEF Init, RevocationInv, TypeOK, Expired
<1>2. RevocationInv /\ [Next]_vars
      => [\A t \in Threads :
             pc[t] = "validating" /\ answer'[t] = "valid" => raced[t] \/ ~mustReject[t]]_vars
  <2> SUFFICES ASSUME RevocationInv, Next, NEW t \in Threads,
                      pc[t] = "validating", answer'[t] = "valid",
                      ~raced[t], mustReject[t]
               PROVE  FALSE
    OBVIOUS
  <2> USE DEF RevocationInv, TypeOK
  <2>1. subject[t] \in DOMAIN m_revoked_tokens
    OBVIOUS
  <2>2. answer[t] # "valid"
    OBVIOUS
  <2>3. ValidateToken(t)
    BY <2>2, ValidFromValidation
  <2> QED
    BY <2>1, <2>3 DEF ValidateToken, Return
<1> QED
  BY <1>1, <1>2, RevocationStep, PTL DEF Spec, RevokedIsRejected
=============================================================================
