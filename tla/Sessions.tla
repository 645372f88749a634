------------------------------- MODULE Sessions -------------------------------
(***************************************************************************)
(* AuthService's login, refresh and logout, and what AuthGuard and         *)
(* TenantGuard do with an access token before a handler runs.  Every await *)
(* is a step: of the database, of Redis, and of bcrypt.                    *)
(*                                                                         *)
(* A token is its user and its expiry: two tokens signed for one user in   *)
(* one second are the same string.  The time unit is the second, in which  *)
(* exp and the blacklist's TTL are given.                                  *)
(***************************************************************************)
EXTENDS Accounts

CONSTANTS
    SessionRequests,   \* bound: requests in flight at once
    Seconds,           \* bound: the seconds the clock can show
    AccessTTL,         \* JWT_EXPIRES_IN
    RefreshTTL         \* JWT_REFRESH_EXPIRES_IN

ASSUME SecondsAssumption ==
    Seconds \subseteq Int /\ AccessTTL \in Nat \ {0} /\ RefreshTTL \in Nat \ {0}

VARIABLES
    clock,          \* Date.now(), in seconds, which Redis's clock follows
    accessTokens,   \* access tokens signed so far
    refreshTokens,  \* refresh tokens signed so far
    blacklist,      \* blacklist[tk]: when the Redis key of tk expires
    redis,          \* the process's connection to Redis: lazy, never retried
    loggedOut,      \* history: tokens whose logout was answered
    sreq            \* sreq[r]: the handler, or the guards before it, in slot r

tokenVars == <<accessTokens, refreshTokens, blacklist, loggedOut>>

sessionVars == <<accessTokens, refreshTokens, blacklist, redis, loggedOut, sreq>>

Token == [user : Users, exp : Int]

SessionIdle == [pc |-> "idle", user |-> None, exp |-> 0, row |-> None, ttl |-> 0]

\* The user's row and its tenant, as login() read them.
LoginRow == [user : User, tenant : Tenant]

SessionRequest ==
    [pc : {"password", "sign", "blacklist", "tenant", "handler", "revoke"},
     user : Users, exp : Int, row : LoginRow \cup {None}, ttl : Int]

SessionsTypeOK ==
    /\ clock \in Seconds
    /\ accessTokens \subseteq Token /\ refreshTokens \subseteq Token
    /\ DOMAIN blacklist \subseteq Token /\ blacklist \in [DOMAIN blacklist -> Int]
    /\ redis \in {"wait", "ready", "end"}
    /\ loggedOut \subseteq Token
    /\ sreq \in [SessionRequests -> SessionRequest \cup {SessionIdle}]

SessionsInit ==
    /\ clock \in Seconds /\ \A s \in Seconds : clock <= s
    /\ accessTokens = {}
    /\ refreshTokens = {}
    /\ blacklist = <<>>
    /\ redis = "wait"
    /\ loggedOut = {}
    /\ sreq = [r \in SessionRequests |-> SessionIdle]

SessionReturns(r) == sreq' = [sreq EXCEPT ![r] = SessionIdle]

\* The handler in slot r moves on to pc, or throws; no token is signed.
SessionProceeds(r, ok, pc) ==
    /\ IF ok THEN sreq' = [sreq EXCEPT ![r].pc = pc] ELSE SessionReturns(r)
    /\ UNCHANGED <<tokenVars, redis>>

LiveUser(u) == u \in DOMAIN users /\ ~users[u].deleted

\* What login() and TenantGuard both ask of a user and its tenant.
MayEnter(user, tenant) ==
    /\ user.role = "ADMIN" => user.approvalStatus = "APPROVED"
    /\ user.isActive
    /\ tenant.isActive

Row(u) == [user |-> users[u], tenant |-> tenants[users[u].tenant]]

----------------------------------------------------------------------------
(***************************************************************************)
(* login and refresh                                                       *)
(***************************************************************************)
Login(r) ==
    /\ sreq[r] = SessionIdle
    /\ \E u \in Users :
         /\ LiveUser(u)
         /\ sreq' = [sreq EXCEPT ![r] =
              [SessionIdle EXCEPT !.pc = "password", !.user = u, !.row = Row(u)]]
    /\ UNCHANGED <<tokenVars, redis>>

SignAccess(u) == accessTokens' = accessTokens \cup {[user |-> u, exp |-> clock + AccessTTL]}

\* bcrypt has accepted the password: the row, as it was read, decides.
CheckPassword(r) ==
    LET q == sreq[r] IN
    /\ q.pc = "password"
    /\ IF MayEnter(q.row.user, q.row.tenant)
         THEN /\ SignAccess(q.user)
              /\ refreshTokens' = refreshTokens \cup
                   {[user |-> q.user, exp |-> clock + RefreshTTL]}
         ELSE UNCHANGED <<accessTokens, refreshTokens>>
    /\ SessionReturns(r)
    /\ UNCHANGED <<blacklist, redis, loggedOut>>

Refresh(r) ==
    /\ sreq[r] = SessionIdle
    /\ \E tk \in refreshTokens :
         /\ clock < tk.exp
         /\ sreq' = [sreq EXCEPT ![r] =
              [SessionIdle EXCEPT !.pc = "sign", !.user = tk.user, !.exp = tk.exp]]
    /\ UNCHANGED <<tokenVars, redis>>

\* The user and its tenant have to be active; approvalStatus is not asked.
SignRefreshed(r) ==
    LET u == sreq[r].user IN
    /\ sreq[r].pc = "sign"
    /\ IF LiveUser(u) /\ users[u].isActive /\ tenants[users[u].tenant].isActive
         THEN SignAccess(u)
         ELSE UNCHANGED accessTokens
    /\ SessionReturns(r)
    /\ UNCHANGED <<refreshTokens, blacklist, redis, loggedOut>>

----------------------------------------------------------------------------
(***************************************************************************)
(* A guarded request: AuthGuard, TenantGuard, the handler.                 *)
(***************************************************************************)

\* AuthGuard verifies the token and asks Redis for it.
Arrive(r) ==
    /\ sreq[r] = SessionIdle
    /\ \E tk \in accessTokens :
         /\ clock < tk.exp
         /\ sreq' = [sreq EXCEPT ![r] =
              [SessionIdle EXCEPT !.pc = "blacklist", !.user = tk.user, !.exp = tk.exp]]
    /\ UNCHANGED <<tokenVars, redis>>

TokenOf(r) == [user |-> sreq[r].user, exp |-> sreq[r].exp]

\* The key is there until it expires.
Blacklisted(tk) == tk \in DOMAIN blacklist /\ clock < blacklist[tk]

\* .catch(() => null): without Redis nothing is revoked.
CheckBlacklist(r) ==
    /\ sreq[r].pc = "blacklist"
    /\ SessionProceeds(r, redis # "ready" \/ ~Blacklisted(TokenOf(r)), "tenant")

CheckTenant(r) ==
    LET u == sreq[r].user IN
    /\ sreq[r].pc = "tenant"
    /\ SessionProceeds(r, LiveUser(u) /\ MayEnter(Row(u).user, Row(u).tenant), "handler")

\* A handler other than logout's, which leaves the tokens alone.
Handle(r) ==
    /\ sreq[r].pc = "handler"
    /\ SessionReturns(r)
    /\ UNCHANGED <<tokenVars, redis>>

\* Mutant: the key expires a second early.
LogoutEarly(r) ==
    LET ttl == sreq[r].exp - clock - 1 IN
    /\ sreq[r].pc = "handler"
    /\ IF ttl > 0
         THEN /\ sreq' = [sreq EXCEPT ![r].pc = "revoke", ![r].ttl = ttl]
              /\ UNCHANGED loggedOut
         ELSE SessionReturns(r) /\ loggedOut' = loggedOut \cup {TokenOf(r)}
    /\ UNCHANGED <<accessTokens, refreshTokens, blacklist, redis>>

\* The key is to live for what is left of the token.
Logout(r) ==
    LET ttl == sreq[r].exp - clock IN
    /\ sreq[r].pc = "handler"
    /\ IF ttl > 0
         THEN /\ sreq' = [sreq EXCEPT ![r].pc = "revoke", ![r].ttl = ttl]
              /\ UNCHANGED loggedOut
         ELSE SessionReturns(r) /\ loggedOut' = loggedOut \cup {TokenOf(r)}
    /\ UNCHANGED <<accessTokens, refreshTokens, blacklist, redis>>

\* redis.set(key, '1', 'EX', ttl) runs later, and throws without Redis.
SetBlacklist(r) ==
    LET tk == TokenOf(r) IN
    /\ sreq[r].pc = "revoke"
    /\ IF redis = "ready"
         THEN /\ blacklist' = [x \in DOMAIN blacklist \cup {tk} |->
                                 IF x = tk THEN clock + sreq[r].ttl ELSE blacklist[x]]
              /\ loggedOut' = loggedOut \cup {tk}
         ELSE UNCHANGED <<blacklist, loggedOut>>
    /\ SessionReturns(r)
    /\ UNCHANGED <<accessTokens, refreshTokens, redis>>

SessionRequestFails(r) ==
    /\ sreq[r] # SessionIdle
    /\ SessionReturns(r)
    /\ UNCHANGED <<tokenVars, redis>>

\* lazyConnect, without an offline queue: commands before it fail.
ConnectRedis == redis = "wait" /\ redis' = "ready" /\ UNCHANGED <<tokenVars, sreq>>

\* "do not retry - fail fast": a lost connection stays lost.
LoseRedis == redis # "end" /\ redis' = "end" /\ UNCHANGED <<tokenVars, sreq>>

\* A new process has a new connection; every request in flight is gone.
Restart ==
    /\ redis' = "wait"
    /\ sreq' = [r \in SessionRequests |-> SessionIdle]
    /\ UNCHANGED tokenVars

SessionsNext ==
    \/ \E r \in SessionRequests :
         \/ Login(r) \/ CheckPassword(r)
         \/ Refresh(r) \/ SignRefreshed(r)
         \/ Arrive(r) \/ CheckBlacklist(r) \/ CheckTenant(r)
         \/ Handle(r) \/ Logout(r) \/ SetBlacklist(r)
         \/ SessionRequestFails(r)
    \/ ConnectRedis
    \/ LoseRedis

----------------------------------------------------------------------------
(***************************************************************************)
(* Properties.                                                             *)
(***************************************************************************)

\* "JWT blacklisting via Redis on logout": although the key's TTL was computed some
\* time before the key was set, and other logouts of the token set it too, a
\* logged-out token passes AuthGuard only without Redis, or when it expired after
\* it was verified, and its key with it.
LoggedOutStaysOut ==
    [][\A r \in SessionRequests :
          /\ sreq[r].pc = "blacklist" /\ sreq'[r].pc = "tenant"
          /\ TokenOf(r) \in loggedOut
          => redis # "ready" \/ clock >= sreq[r].exp]_sreq

\* Tokens are signed for approved admins only, by refresh() too, which does not
\* ask.  A login can sign for one who was decided against while bcrypt ran.
TokensForApproved ==
    [][\A u \in Admins :
          /\ users[u].approvalStatus # "APPROVED"
          /\ \E tk \in (accessTokens' \ accessTokens)
                         \cup (refreshTokens' \ refreshTokens) : tk.user = u
          => \E r \in SessionRequests :
                sreq[r].pc = "password" /\ sreq[r].user = u /\ sreq[r].row # Row(u)
      ]_<<accessTokens, refreshTokens>>

=============================================================================
