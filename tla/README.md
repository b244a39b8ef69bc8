# Zero Trust Secure Session Gateway: TLA+ verification

TLA+ models of the gateway in this repository, TLC configurations that check
them on small instances, and TLAPS proofs of their main properties for every
value of the constants. Every definition is translated from the C++ source;
`PROJECT.json` maps each one to the lines it stands for. Paths below are
relative to the repository's root.

## 1. The system and its parts

A gateway server accepts TLS connections. On each one a client logs in, asks
for a session to a named service, sends proxy requests and logs out. The
handlers run on the threads of one `io_context` and call managers that are
shared by all connections, each with mutexes of its own. A process is one
command-line shell whose `start` command loads a configuration, makes a server
and waits for it to stop.

| Part | State | Operations | Correct when |
| --- | --- | --- | --- |
| `SessionManager` (`src/session`) | `m_sessions`, counters | create, get, update, terminate, extend, listings, clean up | no user exceeds the limit; a session lives until its deadline or its termination, and never again |
| `Connection` (`src/network/connection.cpp`) | `m_authenticated`, `m_user`, `m_session_id` | handshake, read, four requests, write, stop | a connection reaches its own session only; ends it and no other |
| `SecurityManager` (`src/security`) | rate limits, brute force data, blocks, events, a cleanup thread | check, detect, record, block, query, sweep | limits and blocks hold whatever is swept; reports are true; the thread ends |
| `AuthenticationManager` (`src/auth`) | users, attempts, revoked tokens | authenticate, tokens, user table | an account is locked only for attempts that were made; a revoked token is rejected while it lasts |
| `AuthorizationManager` (`src/rbac`) | services, permissions, role hierarchy, a mutex each | access and permission queries, edits | what a query answers agrees with the tables; it gives its mutexes back |
| `ProxyManager`, `ProxyConnection` (`src/proxy`) | map of proxies; two pumps each | start, stop, clean up; connect, read, write | bytes arrive in order and once; an active proxy is mapped and served; a stopped one leaves the map |
| `GatewayServer` (`src/network/gateway_server.cpp`) | running flag, acceptor, work guard, io threads, signal set | initialize, start, stop, accept | a running server accepts; a signal ends it; accepting ends with it |
| `ConfigManager` (`src/config`) | a document and typed settings | load, save, get, validate | what is used is what was validated; what is saved loads back |
| `Logger` (`src/logging`) | sinks, one mutex | log calls | a log call returns |
| `WebServer`, `TlsHandler`, CLI, types | flags, contexts | start and stop, contexts, text | see section 7 |

How they interact: `Connection::process_login_request` calls
`check_rate_limit`, `authenticate`, `record_failed_attempt` or
`record_successful_login`, and `get_user`; `process_session_request` calls
`can_access_service` and `create_session`; `process_logout_request` calls
`terminate_session`. Between any two of these calls no lock is held.
`handle_start_command` makes a `ConfigManager` and a `GatewayServer` of it.
`detect_brute_force`, `is_ip_blocked`, `block_ip`, `update_session`,
`extend_session`, the sweeps of the session table, the token operations, the
edits of the authorization tables and `save_config` are offered by the interfaces
and called by the tests, but by no other code in the repository; the models let
any thread call them. `GatewayServer::initialize` has the creation of the
`ProxyManager` commented out, and `handle_accept` the one of a `Connection`.

What is hard: handlers made of several critical sections; copies of users and
sessions used after the original has changed; deadlines compared in different
ways; maps swept by one thread while another relies on an entry; tables touched
under the wrong mutex or a shared one; mutexes locked twice by one thread;
completion handlers of two pumps and a stop in any order; a shutdown that fails
half way; a document read by two paths that convert it differently. `hazards` in
`PROJECT.json` lists each such place with its line.

Some files do not compile as they stand: `connection.cpp:239`, and `do_read` and
`do_write`, which return awaitables that their callers drop; the stray `}` at
`authorizer.cpp:199`; `ProxyConnection`, whose streams are pointers that nothing
sets. The models follow the evident control flow: `handle_read` handles one
request, writes the answer and reads again; the definitions after that brace are
members of the class; a proxy connection reads and writes on its open sockets.

## 2. Modules

| Module | Stands for |
| --- | --- |
| `SessionQuota` | what the session manager promises: an id has a holder, taken only below the limit |
| `SessionManager` | `SessionManager`; implements `SessionQuota` |
| `Gateway` | connections and an administrator of accounts, over `SM == INSTANCE SessionManager` |
| `RateLimiter` | `check_rate_limit`, `cleanup_rate_limits` |
| `BruteForceGuard` | detector, blocks, cleanup thread, destructor |
| `Relay` | what a proxy promises of one direction: units in order, each once |
| `ProxyManager` | `ProxyManager` and its `ProxyConnection`s; every direction implements `Relay` |
| `Authorizer` | `AuthorizationManager` with its three mutexes |
| `Authenticator` | the attempt limiter and the tokens of `AuthenticationManager` |
| `ConfigManager` | a loaded document: settings, services, validation, `get_int`, `save_config` |
| `GatewayServer` | the process: main thread, io threads, signals; uses `ConfigManager` |
| `MC...` | constants and symmetry for TLC |
| `...Proofs` | theorems on the module of that name |

Operators whose name ends in `_` and a word (`FreshId_NoLoop`) are faulty
variants of the operator below them. Nothing uses them; putting one in the place
of the right one makes the property it is paired with in `PROJECT.json` fail,
which shows that the property depends on the code.

### SessionManager

The variable `m_sessions` is the map, with `NoSession` at absent keys. A session
is reduced to the fields that some operation reads: its id, user, deadline and
active flag. Every public method takes `m_sessions_mutex` for its whole body, so
it is one action; `create_session` reads the clock twice under the lock, which
no other operation can tell from reading it once. `copies` holds the `Session`
objects that callers got by value and may write back with `update_session`, at
any later time and under any key: the method looks the key up and compares it with
nothing in the copy, so that one user's session may come to stand under the id of
another's. `issued` is a history of the ids drawn, `ended` of those that
`terminate_session` removed and that were not drawn again. Three constants switch
parts of the environment: `Callers` (who writes copies back), `ClockStepsBack`
(the clock is `system_clock`) and `IdsRecur` (32 random bytes may repeat).
The limit is tested inside the counting loop, so the code is right for limits
from 1 upward only, and the assumption on `MaxSessionsPerUser` says so.

### Gateway

`phase[c]` is where connection `c` is: `verified` and `authorised` are the
points inside the login and the session handler at which no lock is held.
`m_users` is the account table, edited by an administrator at any moment.
The variables of `SM` are the gateway's too, its histories included.
`response` is what waits to be written; `creator` records which connection
created a session. A handler's refusals (JSON errors, empty fields, the rate
limiter, a wrong password) are one action each with the answer `error`, because
they change nothing else in this model.

### RateLimiter and BruteForceGuard

Each mutex's critical section is one action, except `detect_brute_force`, which
takes a second mutex half way: `DetectAttack` marks the entry and keeps
`m_brute_force_mutex` (`blocking` holds the client), `AutoBlock` is the call of
`block_ip`. The cleanup thread has a program counter, `worker`; the destructor
clears `m_running` and waits for `exited`. `block_ip`, when others call it,
overwrites the entry with any duration, shorter than the automatic block or even
over at once; `asked` is the end of such a block since the last automatic one.
`granted`, `refused`, `failures` and `asked` are histories used by the properties
only; `granted` and `failures` are logs of
the times, oldest first, so that a number of events within a stretch of time is
the size of a set of places in the log. `optional` values are modelled by a
number that is read only when the flag beside it is set.

### ProxyManager and Relay

`m_proxies` is the map. The critical sections of the manager are one action
each, but for the two calls that stop an active connection with the mutex held
and come back to `remove_proxy`, which locks it again: those leave
`m_proxies_mutex` held for good (`StopProxyActive`, `StartProxyBadAddress`).
`pc[c][h]` is the program counter of one of three handlers of a connection: the
connect and the two pumps. A pump reads (`HandleRead`), commits what it read and
starts the write (`CommitRead`), and consumes what was written (`HandleWrite`);
`HandleError` is any of these called with an error, and leads through
`StopBegin`, `UpdateStatistics` and `RemoveProxy`, the parts of `stop()` between
which others run. Bytes are numbered units. `m_bytes_received` is a plain integer
that both read handlers add to, so its load and its store are two steps and an
update may be lost; a connection stopped in between is counted with what is there.
`overtaken` records the sessions whose entry a late `remove_proxy` took from a
younger connection.

### Authorizer

A query is a sequence of steps, since `m_services_mutex` or
`m_permissions_mutex` is held while `m_hierarchy_mutex` is taken once for each
role compared. `Superior` is `is_role_superior`: it answers for equal roles, for
roles without subordinates and when the first subordinate is the one asked for.
Otherwise it calls itself, and the caller is `stuck` with the hierarchy mutex
and all it held. The administrator's edits are one critical section each.

### Authenticator

`authenticate` and `generate_token` make tokens; a token is its user, the second
it was made in and which of the two made it. The limiter's counter is written
under a shared lock, so `AuthenticateBegins` loads it and `RecordAttempt`
stores it. `validate_token` looks a token up under another mutex than the one the
table is written under: if a write overlaps the lookup (`raced`) its outcome is
free. `cleanup_expired_tokens` reads the clock before it locks (`loaded`).
Passwords, signatures and the encoding are left out: whether an attempt is
refused is a choice.

`authenticate` asks `should_block()` of an entry whose class is not in the
repository (the security manager's `RateLimitInfo` has no such member). `ShouldBlock`
is modelled from its use, as external: it compares the attempts counted with
`MAX_LOGIN_ATTEMPTS`.

### ConfigManager and GatewayServer

A document is a function from sections to functions from fields to values.
`Settings` is what the five `parse_` methods read through `json::value` (where
ports are cut to 16 bits), `GetInt` what the server reads through text and
`stoi`, and `ValidateConfig` has one operator per validation method, with the
bounds of the code. `IllTyped` is a value that makes `json::value` throw,
`JsonTrue` the boolean that the one path takes for 1 and the other for no number.
`ParsedServices` are the places in the list of a document whose service is whole;
of those with one name `LastNamed` is the one that stays in the map.

In `GatewayServer`, `main` is where the main thread is, from the shell through the
start command and back, or how the process ended; `io` is what each io thread
does; `signals` is who handles a signal, the C handler of `main.cpp` or, after
`register_signal_handlers`, the signal set. `accept` is whether an
`async_accept` is pending. `stop()` ends at `m_acceptor->cancel()`
(`gateway_server.cpp:121`), since a closed acceptor refuses it with an exception;
what stands behind that line is never run and is not in the model. A destroyed
`std::thread` that was not joined is `terminated`. `handle_accept` counts a
connection, asks the socket for its peer and starts the next accept
(`HandleAccept`, `AcceptAgain`). If the client has gone again by then,
`remote_endpoint()` throws (`gateway_server.cpp:178`); the lambda that calls
`io_context::run` catches nothing, and the process ends (`HandleAcceptThrows`,
`thrown`). No client is assumed to stay, or to go.

## 3. What TLC checks

Runs that pass:

| Run | Properties | Instance | Shows |
| --- | --- | --- | --- |
| `session_limit` | `TypeOK`, `SessionLimit`, `QuotaSpec`, `NoRevival` | 2 users, 3 ids that may be drawn again, limit 2, timeout 2, clock to 4 | the limit under every order of create, extend, terminate, sweep, expiry; the life of a session has one beginning and one end |
| `session_copies` | `TerminatedStaysGone`, `LiveLeavesByTermination` | 2 users, 2 ids, 2 callers with copies they may write under either id, clock may step back | late writes revive no removed id, and what counts goes in a call of `terminate_session` and in no sweep or lookup |
| `gateway_sessions` | `TypeOK`, `OwnSession`, `EndedSessionIsForgotten`, `EndedByOwner` | 2 connections, 2 users, 3 ids, limit 1 | sessions stay with their connection |
| `rate_limit` | `TypeOK`, `SlidingWindow`, `BlockLasts`, `BlockEnds` | limit 2, window 2, block 5, clock to 12 | windows and blocks through sweeps, and that blocks end |
| `brute_force` | `TypeOK`, `DetectedIsBlocked`, `NoFalseAlarm`, `DestructorReturns`, `BlockIsRemoved` | threshold 2, window 1, block 3, others' blocks 1 or 4, clock to 5, 2 failures recorded at an instant | detections race everything else; the thread does its work and ends |
| `proxy` | `TypeOK`, `ActiveIsMapped`, `ActiveIsServed`, `NeverCountedTwice`, `RelayInOrder`, `StoppedIsRemoved` | 1 session, 2 connections, 2 units one way and 1 the other, reads of up to 2 | every order of the completions, the errors and the manager's calls |
| `authorizer` | `TypeOK`, `GrantIsJustified`, `DenialIsJustified`, `PermissionDenialIsCurrent`, `LocksAreReleased` | 2 callers, the 3 roles, a service, a permission, two edges that close cycles | answers agree with the tables although these are edited half way |
| `authenticator` | `TypeOK`, `LockedOnlyAfterAttempts`, `RevokedIsRejected` | 2 threads, 1 user, 2 tokens, limit 2, lifetime 1, clock to 3 | lost updates and racing lookups do only so much |
| `server` | `TypeOK`, `ServingAccepts`, `ServedPortIsValidated`, `SavedLoadsBack`, `SignalEndsCommand`, `AcceptEnds` | 29 files at and around every bound that is tested, up to 3 io threads, 2 connections | starts, failures, clients that go at once and signals at every step |

Bounds. The session limit of 1 or 2 with one id more than the limit is the least
that can overflow it, and a second user the least that can be confused with the
first. The clock runs past a session's deadline, its longest extension and the
next creation. In `gateway_sessions` the timeout is 0 and the clock has one tick:
a session is either alive or over, and both kinds meet every handler. Two
connections suffice for a session to pass from one to another. The entries of
different clients in the two security maps are never read together, so one client
is enough; `rate_limit` runs far enough for a block to end, the sweep to reset
the entry, two more windows to pass and the sweep to erase it. In
`brute_force` the clock passes the end of a block by as much as twice the window,
after which the sweep may drop the entry, and the blocks that others ask for are
one shorter and one longer than the automatic one.

In `proxy` one session with two connections is the least in which a late removal
meets a younger entry; three units are two reads that follow each other in one
direction and one that races them in the other. In `authorizer` there are the
roles the code has; two callers are the least that can wait for each other, and
the edges make a cycle of every length there is. In `authenticator` a second user
would only add a second counter; the two tokens may be of one second, and the
clock passes the expiry of a token and of the entry of its revocation. In
`server` a third thread is the least that lets one stop, one handle an accept and
one go on; every field of the configuration that is validated is given values on
both sides of a bound, and `listen_port` is given every way a number can differ
between the two paths that read it.

Fairness. `SessionManager` is fair only to the clock: the class owns no thread.
`RateLimiter` and `BruteForceGuard` are fair to the clock and to the cleanup
thread, which the scheduler runs and whose sleep ends, and to a detection that
already holds its mutexes. `ProxyManager` is fair to handlers that have been
called, and to the completion of operations on sockets that are closed; on an
open socket a peer may be silent for ever. `Authorizer` is weakly fair to each
query, and nothing is assumed of the order in which a mutex is granted.
`GatewayServer` is fair to the main thread inside a start command, to `stop()`
and to the end of a handler once begun. That the handler of a signal, and the
failure of an accept on a closed acceptor, get their turn is strong fairness:
threads are busy with other handlers again and again, but an `io_context` runs
ready handlers in order, so that one that is ready is not passed over for ever.
No client, administrator or signal is ever assumed to act.

`CHECK_DEADLOCK FALSE` stands where the system really stops: a destroyed manager
at the last tick (`brute_force`), a mutex locked twice by its holder (`proxy`,
`authorizer`), and a process that has ended (`server`).

Runs that find a violation. Each checks one sentence of the documentation, the
comments or the tests, and TLC shows a run of the code that breaks it:

| Run | Sentence | What happens |
| --- | --- | --- |
| `gateway_logout` | docs/security_model.md:164 "Complete session termination" | a session that a later session request replaced survives the logout |
| `authorizer_permissions` | tests/test_authorization.cpp:88-90, a viewer may not `session.create` | `role_has_permission` grants a role what the roles above it have |
| `server_shutdown` | gateway_server.cpp:224 and main.cpp:31, "graceful shutdown" | the io threads are never joined, and destroying the server ends the process in `std::terminate` |

Further sentences that the models refute are stated as definitions without a run.
Adding the definition to the configuration named, as an `INVARIANT` or a
`PROPERTY`, shows the run of the code:

| Definition | Configuration | Sentence | What happens |
| --- | --- | --- | --- |
| `SessionManager!SessionLimit` | `session_copies` | README.md:60 | `update_session` reactivates or prolongs a session past the limit |
| `SessionManager!ExpiredIsRemoved` | `session_limit` with `FairSpec` and no `SYMMETRY` | README.md:59 | nothing removes an expired session that nobody touches |
| `Gateway!ProxyOnValidSession` | `gateway_sessions` | docs/architecture.md:112 | a proxy request is granted on an expired session |
| `Gateway!SessionOfCurrentUser` | `gateway_sessions` | docs/security_model.md:161 | a second login keeps the first user's session |
| `Gateway!CreatedForCurrentAccount` | `gateway_sessions` | docs/security_model.md:10 | an account changed after the login still gets a session |
| `BruteForceGuard!ReportedIsBlocked` | `brute_force` | README.md:55 | an address marked once is not blocked again |

In the trace of `ReportedIsBlocked` a shorter block has replaced the automatic one.
With `Durations = {4}` there is another, without any such call, in which the
automatic block runs out and the sweep is slow; with the real constants
the entry is kept by the attacker's own failures, since the sweep erases it only
1800 s after the last one and the block lasts 3600 s.

Other behaviour met while modelling:

* Sessions: `update_session` does not compare its key with the session it is given,
  so that a copy of one user's session can replace another user's, or stand in for
  it after its own was terminated; expired sessions count again when the wall clock is set back
  (`ClockStepsBack = TRUE` breaks `SessionLimit`); a connection that drops leaves
  its session to its deadline.
* Guards: `block_ip` with a short duration ends a longer block early, an automatic
  one too; the rate limiter keeps the entry of a client that left below the limit
  for ever; failures are counted in windows that start with the first of them, so
  that as many failures as the threshold within one window can be split over two
  and missed. `authenticate` loses attempts that overlap.
* Tokens: `validate_token` looks at neither the signature nor the expiry, so that
  a revoked token is valid again once its entry is cleaned up;
  `get_user_from_token` fails for every token, because `parse_jwt_payload`
  tests a variable it never assigns; tokens made in one second by one method are
  equal, and revoking one revokes both; `m_blocked_users` is never filled.
* Authorization: with the default hierarchy `is_role_superior(ADMIN, VIEWER)`
  locks its mutex twice; tests/test_authorization.cpp:182-186 expects `true`.
* Proxy: `stop_proxy` on an active proxy, and `start_proxy` with a host name for an
  address, lock the manager's mutex twice.
* Configuration: `thread_count: 0`, "auto-detect" in examples/config.yaml:11,
  gives no io thread at all; `thread_count` is not saved; a misspelt role is read
  as viewer, where the comment at config_manager.cpp:416 says "Invalid role, skip";
  a port that is `true` or passes 2^31 is validated as 1 or by its low 16 bits and
  served as 8080 (other large ones are cut alike on both paths); without a port the
  shell announces 8443 and the server listens on 8080. The two example configurations are rejected: they have no
  `jwt_secret` and no database host, and YAML in block style is no JSON.
* Process: `g_server` of main.cpp is another variable than the one the CLI sets,
  and is null; a second `start` in the shell after a signal, or leaving the shell
  after one, destroys a server with threads and ends in `std::terminate`. A client
  that resets its connection before `handle_accept` asks for its address ends the
  process the same way. `start()` that fails to create a thread keeps the earlier
  ones, under which the next start destroys the server.

## 4. What is proved

| Theorem | Says |
| --- | --- |
| `SessionManagerProofs!TypeCorrect` | types; the ids in the table have been drawn and are not recorded as terminated; where nobody calls `update_session`, a session is under its own id |
| `SessionManagerProofs!NoRevivalHolds`, `SessionLimitHolds`, `ImplementsQuota` | with no copies written back and a clock that does not step back: no revival, the limit, the refinement of `SessionQuota` |
| `SessionManagerProofs!TerminatedStaysGoneHolds` | with ids that do not repeat: whatever is written back under whatever key, and whatever the clock does, a removed id stays removed |
| `SessionManagerProofs!LiveLeavesByTerminationHolds` | with no hypothesis: a session that counts leaves the map in a call of `terminate_session` with its id, and in no other step |
| `GatewayProofs!TypeCorrect` | types of the table, the accounts and the connections |
| `GatewayProofs!SessionLimitHolds`, `ImplementsQuota` | the limit and the refinement of `SessionQuota`, over all interleavings of the handlers of all connections |
| `GatewayProofs!OwnSessionHolds`, `EndedByOwnerHolds`, `EndedSessionIsForgottenHolds` | sessions stay with their connection, are ended by it only, and are forgotten when they are ended |
| `RateLimiterProofs!TypeCorrect`, `BlockLastsHolds`, `SlidingWindowHolds` | counts stay within the limit; a block lasts; no stretch as long as a window sees more than two limits of requests |
| `BruteForceProofs!TypeCorrect`, `DetectedIsBlockedHolds`, `NoFalseAlarmHolds` | types; a client found attacking is blocked for the block duration, or to the end others have set since; an attack that is reported has happened |
| `ProxyManagerProofs!TypeCorrect`, `RelayHolds` | types; each direction of each connection implements `Relay` |
| `ProxyManagerProofs!ActiveIsMappedHolds`, `ActiveIsServedHolds`, `CountedOnce` | an active connection is mapped and served; the total is at most what stopped connections moved |
| `AuthorizerProofs!TypeCorrect`, `GrantHolds`, `DenialHolds`, `PermissionDenialHolds` | types and who holds the mutexes; what is granted, and what is refused, agrees with the tables |
| `AuthenticatorProofs!TypeCorrect`, `LockedOnlyAfterAttemptsHolds`, `RevokedIsRejectedHolds` | types and who holds the mutex; no attempt is made up; a revoked token is rejected while it lasts |
| `GatewayServerProofs!TypeCorrect`, `ServingAcceptsHolds`, `ServedPortIsValidatedHolds` | one accept in one place and one stop; a running server accepts; it does so on the port that was validated, or on the default where that is no number to `stoi` |
| `GatewayServerProofs!SavedLoadsBackHolds` | a configuration that was loaded and is saved is accepted, and gives the same settings and services |

Every invariant and every action property that a run checks is stated by one of
these theorems.

The assumptions are the ones named in the modules (`SessionManagerAssumption`,
`GatewayAssumption`, `SessionAssumption`, `RateLimiterAssumption`,
`BruteForceAssumption`, `AuthenticatorAssumption`, `ProxyAssumption`,
`FiniteConnections`, `AuthorizerAssumption`, `QueryAssumption`, `ConfigManagerAssumption`,
`GatewayServerAssumption`): the durations of others' blocks and of extensions are
any integers, other numbers are natural, placeholders differ from what they stand
in for, the sets of session ids and of proxy connections are finite (the total of a
run is a sum over the connections), ports and thread counts in a file are integers
or one of the two ill-typed values, which are neither numbers nor defaults, and a
list of services is a finite list of services. Where a theorem needs more of the
environment its statement says so. `SessionLimit` fails in `session_copies`, so that the
hypothesis on late writes cannot be dropped, and in `session_limit` with
`ClockStepsBack = TRUE`, so that the one on the clock cannot.

* The limit. `LiveSessions(u)` grows only by `CreateSession(u, id)`
  (`OnlyCreationAdds`), which adds one id to a finite set that was below the limit
  (`CreationAddsOne`). A clock that steps back and a late write are exactly the
  steps that lemma excludes. The refinement follows from the same two lemmas: a
  creation is `Admit`, anything else is `Release` of the ids that stopped counting.
  The gateway has lemmas of the same names about its own steps: only the end of a
  session request creates, and the administrator, the clock and the other handlers
  only take away. It needs no hypothesis on the environment, because the gateway
  calls neither `update_session` nor anything that sets a clock. The refinement of
  the quota by the gateway (`CreationBeginsOne`, `OnlyCreationBegins`) is the same
  promise kept by the composition, with every step of every connection in it.
* The gateway. `OwnSession` is not inductive: a session id the connection does not
  hold yet could be drawn twice. `SessionInv` adds that every id held or present
  has been issued, and that a fresh one has not. `TypeInv` adds that a request that
  is authorised has a user. With both, a logout takes out of the table the session
  of one connection, which forgets it, and which no other holds (`HeldInv`).
* The termination. `ended` gains an id in `TerminateSession` and in no other action;
  every other step that takes an id out of the map has found its deadline passed,
  so that it did not count.
* The block. `BlockHeld` strengthens `BlockLasts`: during a block the entry is
  present, blocked until the right moment, and its count is positive, which is
  what keeps the sweep away from it.
* The windows. `WindowInv` relates an entry to the log of its client: the last
  `request_count` requests are those of the window, all others lie before its
  start, and all but the last `MaxRequests` of these by a window or more. So a
  request is let through a window or more after the one two limits before it
  (`Spaced`). Those of one stretch then fit between the first of them (`Least`) and
  the place two limits on (`SpacedIsSliding`); no sum is taken. The bound of twice
  the limit is the best there is: a full window may end where one begins.
* The count of failures. `CountsInv`: the last `failed_attempts` failures of the log
  are those since `first_attempt`, so that a count that reaches the threshold
  within the window is a set of failures of that size.
* The attack. `DetectedIsBlocked` needs `FoundBefore`, that no attack was found in
  the future, so that the automatic block ends late enough. `BlockedUntil` is that
  end, or the one others have asked for since (`asked`), of which nothing is
  assumed: their durations are any integers. Until then neither sweep nor lookup
  can drop the block, and a call of `block_ip` between the mark and the automatic
  block is overwritten by it (`MarksKept`, `InvStep`).
* The attempts. `CountInv`: the counter, and the value any thread has loaded, are
  at most the attempts recorded so far, so that no store can run ahead of them,
  however late it comes.
* The revocation. `RevocationInv`: the entry of a revoked token ends no earlier
  than the token; a sweep compares with a time that is past, so it leaves every
  entry of a token that is not over; a lookup that no write overlaps began when
  nobody held the writers' mutex, and sees what it would have seen then.
* The relay. `Pump(c, d)` says what lies between the two sides of one direction: what
  was taken and not delivered is nothing while the pump reads, at most one read's
  worth when it has read, and exactly the contents of the buffer, in order, while
  it writes. Each handler then is one step of `Relay` for its direction, and none
  for the other. `Life(c)` says that a connection without a session has no handler
  and is not active, and that one being counted or removed is not active any more.
* The map and the service. `ActiveIsMapped` and `ActiveIsServed` are inductive with
  the types and `Life`. What takes the entry of a younger connection away is a
  late `RemoveProxy`, which adds its session to `overtaken`; what ends a pump of an
  active connection is an error, whose handler is then about to stop it.
* The total. `NeverCountedTwice` compares the total with a sum over the connections.
  A sum is a function on sets which has an equation; that it exists (`SumExists`),
  and grows with one of its terms (`SumGrows`), is shown with the least number for
  which it would not (`Least`), and needs the set of connections to be finite
  (`FiniteConnections`). `BytesInv` says that the plain counters, with the values
  the racing handlers have loaded, never pass what was read and written, and that
  one handler at most is let through to the counting; `TotalInv` that the total is
  at most the sum of what each counted connection may have added.
* The answers. While services are judged their table is locked, but the hierarchy is
  not. `Judgement` says of the services judged so far that those in the answer are
  allowed by the tables as they are, and that those refused were not allowed by
  the hierarchy with which the query began (`known`); edges are only added, so that
  the first is never made false (`AboveGrows`) and the second does not change.
  `Waits` keeps the permission of a query that waits for the roles above its own out
  of a table that is locked.
* The port. `PortInv`: from the load on, the configuration is that of an accepted
  document. `PortsAgree` is arithmetic: a number that `json::value` cuts to a port
  in 1..65535 is cut to the same by the cast of the server, and what is no number
  for `stoi` becomes the default.
* The server. `LifeInv` says what a server has on its way up: no thread before
  `start`, no handler of an accept before there is one. With it one accept is in
  one place through every step (`ThreadAdded`, `ThreadChanged`, `MainStep`,
  `IoStep`).
* The saved document. `ConfigInv`: a configuration is that of an accepted document.
  Its settings have every field, and a second conversion changes none of them: a
  port that was validated fits 16 bits, and no value is ill typed or `true` any
  more (`SettingsAreTyped`, `SettingsComeBack`). Its services are finitely many
  (`FinitelyParsed`), each whole and with roles that are roles (`KeptIsSound`); the
  list that is written has each at one place, in an order nothing is known of
  (`Listing`), so none is dropped and the last of a name is the only one
  (`ServicesComeBack`).

Model-checked only: everything under fairness (`BlockEnds`, `DestructorReturns`,
`BlockIsRemoved`, `StoppedIsRemoved`, `LocksAreReleased`, `SignalEndsCommand`,
`AcceptEnds`), which the prover does not reach. The provers know nothing of the text
of a string: the empty text is a named definition, and that the default values are
not the ill-typed ones is part of `ConfigManagerAssumption`, which TLC evaluates.
The definitions without a run (section 3) are false, and nothing is proved of them.

## 5. Plan

1. Done: the session manager, the request path over it, the two guards.
2. Done: `ProxyManager` over `Relay`; `Authorizer`; `Authenticator`;
   `ConfigManager` and `GatewayServer`; proofs about the gateway, the
   authenticator and the server.
3. Done: proofs about `ProxyManager` and `Authorizer`; `SlidingWindow` and
   `NoFalseAlarm` by invariants over logs; `LiveLeavesByTermination`,
   `SavedLoadsBack`; the gateway implements `SessionQuota`.
4. Composition: `Gateway` with `RateLimiter` and `BruteForceGuard` in the login, and
   the invariants of the two guards carried over to it.
5. The queue of security events. The destructors of the proxy. A second load into
   one `ConfigManager`.

## 6. Running

In this directory, with TLC, TLAPM and the community modules:

    tlc -config session_limit.cfg MCSessionManager
    tlapm SessionManagerProofs.tla

`PROJECT.json` names the module and the expected outcome of each configuration.

## 7. Not modelled

* `Logger`: each call writes one line under one mutex. `log_authentication_attempt`
  would lock it twice, and is called by nothing.
* `WebServer`: a flag set and cleared by one thread; it listens on nothing and its
  pages are constants. `web_main.cpp` waits for it.
* `TlsHandler` sets OpenSSL contexts up; the models take a handshake, and an
  initialization, as events that succeed or fail.
* The commands of the shell other than `start`: they print fixed answers, and
  `stop` looks for a server of its own process that is inside its start command.
* `types.cpp`, `constants.ixx`: conversions and texts.
* Password hashing, JWT encoding, base64 and the syntax of JSON and YAML are
  functions of their input with no state. Log messages and the texts of answers
  are left out everywhere.
* `SecurityManager`'s queue of events and the exceptions its thread catches.
* `~ProxyManager` and `~ProxyConnection`, and TLS towards a target, which
  `setup_ssl_if_needed` leaves as a comment.
* A second `load_config` into one `ConfigManager`, and what a failed one leaves
  there: the only caller makes a manager for each load. `load_from_environment`
  and `reload_config` are empty.
* The part of `GatewayServer::stop` behind the call that throws.
