---------------------------- MODULE SessionClient ----------------------------
(***************************************************************************)
(* The session of the browser: the tokens in localStorage, the axios       *)
(* interceptors that refresh them (frontend/lib/api.ts), and the React     *)
(* state that says who is signed in (frontend/contexts/AuthContext.tsx).   *)
(*                                                                         *)
(* JavaScript runs one callback at a time, so a step is what happens       *)
(* between two awaits.  A login is numbered; its access tokens are, too.   *)
(***************************************************************************)
EXTENDS Naturals

CONSTANTS
  Requests,   \* slots for API requests in flight
  Me,         \* the slot of fetchUser, which restores the session
  None,       \* no token
  MaxLogins,  \* bound on the logins
  MaxTokens,  \* bound on the access tokens of one login
  MaxReloads  \* bound on the reloads of the page

ASSUME MeAssumption    == Me \in Requests
ASSUME BoundAssumption == MaxLogins \in Nat \ {0} /\ MaxTokens \in Nat \ {0}
                          /\ MaxReloads \in Nat

Logins == 1 .. MaxLogins
Tokens == [login: Logins, n: 1 .. MaxTokens]

ASSUME NoneAssumption == None \notin Tokens /\ None \notin Logins

VARIABLES
  login,         \* the login the user is in, or was in last
  issued,        \* access tokens the server issued for each login
  expired,       \* access tokens the server refuses
  access,        \* localStorage access_token
  refresh,       \* localStorage refresh_token, by its login
  default,       \* api.defaults.headers.common.Authorization
  isRefreshing,
  failedQueue,
  req,           \* the requests: stage, _retry, token on the wire, refresh token used
  auth,          \* isAuthenticated
  loading,       \* isLoading
  crossed,       \* history: work of one login met another login
  reloads

server  == <<login, issued, expired>>
storage == <<access, refresh, default>>
client  == <<isRefreshing, failedQueue, req>>
react   == <<auth, loading>>
past    == <<crossed, reloads>>
vars    == <<server, storage, client, react, past>>

Stage == {"idle", "sent", "queued", "refreshing", "ok", "failed"}

Request == [at: Stage, retry: BOOLEAN, token: Tokens \cup {None}, using: Logins \cup {None}]

TypeOK ==
  /\ login \in Logins
  /\ issued \in [Logins -> 0 .. MaxTokens]
  /\ expired \subseteq Tokens
  /\ access \in Tokens \cup {None} /\ default \in Tokens \cup {None}
  /\ refresh \in Logins \cup {None}
  /\ isRefreshing \in BOOLEAN
  /\ failedQueue \subseteq Requests
  /\ req \in [Requests -> Request]
  /\ auth \in BOOLEAN /\ loading \in BOOLEAN /\ crossed \in BOOLEAN
  /\ reloads \in 0 .. MaxReloads

InFlight(r) == req[r].at \in {"sent", "queued", "refreshing"}

Refused(t) == t = None \/ t \in expired

-----------------------------------------------------------------------------
\* The request interceptor: the stored token, else the default header.
Bearer(stored, dflt) == IF stored # None THEN stored ELSE dflt

Settled(S, stage) == [r \in Requests |-> IF r \in S THEN [req[r] EXCEPT !.at = stage] ELSE req[r]]

Resent(S, t) ==
  [r \in Requests |-> IF r \in S THEN [req[r] EXCEPT !.at = "sent", !.token = t] ELSE req[r]]

\* What fetchUser does in its finally and catch when it is one of the requests
\* that ended without data: nobody is signed in.
MeFailed(S) ==
  IF Me \in S THEN auth' = FALSE /\ loading' = FALSE ELSE UNCHANGED react

Send(r) ==
  /\ auth /\ r # Me /\ ~ InFlight(r)
  /\ req' = [req EXCEPT ![r] = [at |-> "sent", retry |-> FALSE, using |-> None,
                                token |-> Bearer(access, default)]]
  /\ UNCHANGED <<server, storage, isRefreshing, failedQueue, react, past>>

Answer(r) ==
  /\ req[r].at = "sent" /\ ~ Refused(req[r].token)
  /\ req' = Settled({r}, "ok")
  /\ IF r = Me THEN auth' = TRUE /\ loading' = FALSE ELSE UNCHANGED react
  /\ UNCHANGED <<server, storage, isRefreshing, failedQueue, past>>

\* A network error, the 15 s timeout, or a 5xx: fetchUser keeps the tokens.
Drop(r) ==
  /\ req[r].at = "sent"
  /\ req' = Settled({r}, "failed")
  /\ MeFailed({r})
  /\ UNCHANGED <<server, storage, isRefreshing, failedQueue, past>>

\* The second 401 of a request, or one with no refresh token: it is rejected, and
\* fetchUser removes the tokens.
Reject(r) ==
  /\ req[r].at = "sent" /\ Refused(req[r].token)
  /\ \/ req[r].retry
     \/ ~ req[r].retry /\ ~ isRefreshing /\ refresh = None
  /\ req' = Settled({r}, "failed")
  /\ IF r = Me THEN access' = None /\ refresh' = None ELSE UNCHANGED <<access, refresh>>
  /\ MeFailed({r})
  /\ UNCHANGED <<server, default, isRefreshing, failedQueue, past>>

\* A 401 while somebody refreshes: wait, without the _retry mark.
Enqueue(r) ==
  /\ req[r].at = "sent" /\ Refused(req[r].token)
  /\ ~ req[r].retry /\ isRefreshing
  /\ failedQueue' = failedQueue \cup {r}
  /\ req' = [req EXCEPT ![r].at = "queued"]
  /\ UNCHANGED <<server, storage, isRefreshing, react, past>>

\* The first 401 refreshes for all.
StartRefresh(r) ==
  /\ req[r].at = "sent" /\ Refused(req[r].token)
  /\ ~ req[r].retry /\ ~ isRefreshing /\ refresh # None
  /\ isRefreshing' = TRUE
  /\ req' = [req EXCEPT ![r].at = "refreshing", ![r].retry = TRUE, ![r].using = refresh]
  /\ UNCHANGED <<server, storage, failedQueue, react, past>>

\* Variant: only the request that refreshed is sent again.
RefreshedAlone(r) ==
  LET l == req[r].using
      t == [login |-> l, n |-> issued[l] + 1] IN
  /\ req[r].at = "refreshing"
  /\ issued[l] < MaxTokens
  /\ issued' = [issued EXCEPT ![l] = @ + 1]
  /\ access' = t /\ default' = t
  /\ req' = Resent({r}, t)
  /\ isRefreshing' = FALSE
  /\ crossed' = (crossed \/ refresh # l)
  /\ UNCHANGED <<login, expired, refresh, failedQueue, react, reloads>>

\* Variant: the queue keeps the requests it released.
RefreshedKeepsQueue(r) ==
  LET l == req[r].using
      t == [login |-> l, n |-> issued[l] + 1] IN
  /\ req[r].at = "refreshing"
  /\ issued[l] < MaxTokens
  /\ issued' = [issued EXCEPT ![l] = @ + 1]
  /\ access' = t /\ default' = t
  /\ req' = Resent(failedQueue \cup {r}, t)
  /\ isRefreshing' = FALSE
  /\ crossed' = (crossed \/ refresh # l)
  /\ UNCHANGED <<login, expired, refresh, failedQueue, react, reloads>>

\* The new token is stored, whoever is signed in by now; the queue and the
\* request that refreshed are sent again with it.
Refreshed(r) ==
  LET l == req[r].using
      t == [login |-> l, n |-> issued[l] + 1] IN
  /\ req[r].at = "refreshing"
  /\ issued[l] < MaxTokens
  /\ issued' = [issued EXCEPT ![l] = @ + 1]
  /\ access' = t /\ default' = t
  /\ req' = Resent(failedQueue \cup {r}, t)
  /\ failedQueue' = {}
  /\ isRefreshing' = FALSE
  /\ crossed' = (crossed \/ refresh # l)
  /\ UNCHANGED <<login, expired, refresh, react, reloads>>

\* Variant: the tokens go, the React state is not told.
SignOutSilently(r) ==
  LET S == failedQueue \cup {r} IN
  /\ req' = Settled(S, "failed")
  /\ failedQueue' = {}
  /\ isRefreshing' = FALSE
  /\ access' = None /\ refresh' = None
  /\ loading' = (loading /\ Me \notin S)
  /\ crossed' = (crossed \/ refresh # req[r].using)
  /\ UNCHANGED <<server, default, auth, reloads>>

\* The catch clause of the refresh: the queue is rejected, the tokens go, and
\* AUTH_UNAUTHORIZED signs the user out.
SignOut(r) ==
  LET S == failedQueue \cup {r} IN
  /\ req' = Settled(S, "failed")
  /\ failedQueue' = {}
  /\ isRefreshing' = FALSE
  /\ access' = None /\ refresh' = None
  /\ auth' = FALSE
  /\ loading' = (loading /\ Me \notin S)
  /\ crossed' = (crossed \/ refresh # req[r].using)
  /\ UNCHANGED <<server, default, reloads>>

RefreshRejected(r) == req[r].at = "refreshing" /\ SignOut(r)

\* A network error or a 5xx takes the same way.
RefreshDropped(r) == req[r].at = "refreshing" /\ SignOut(r)

-----------------------------------------------------------------------------
(* The user, the page and the clock. *)

\* Variant: what is stored is the token before the one the server issues.
LoginBehind ==
  LET l == login + 1
      t == [login |-> l, n |-> issued[l]] IN
  /\ ~ auth /\ ~ loading /\ login < MaxLogins /\ ~ InFlight(Me)
  /\ login' = l
  /\ issued' = [issued EXCEPT ![l] = 1]
  /\ access' = t /\ refresh' = l
  /\ req' = [req EXCEPT ![Me] = [at |-> "sent", retry |-> FALSE, using |-> None, token |-> t]]
  /\ loading' = TRUE
  /\ crossed' = (crossed \/ \E r \in Requests : InFlight(r))
  /\ UNCHANGED <<expired, default, isRefreshing, failedQueue, auth, reloads>>

\* GuestGuard shows the form to nobody who is signed in or loading.  onSuccess
\* stores both tokens and starts fetchUser.
Login ==
  LET l == login + 1
      t == [login |-> l, n |-> 1] IN
  /\ ~ auth /\ ~ loading /\ login < MaxLogins /\ ~ InFlight(Me)
  /\ login' = l
  /\ issued' = [issued EXCEPT ![l] = 1]
  /\ access' = t /\ refresh' = l
  /\ req' = [req EXCEPT ![Me] = [at |-> "sent", retry |-> FALSE, using |-> None, token |-> t]]
  /\ loading' = TRUE
  /\ crossed' = (crossed \/ \E r \in Requests : InFlight(r))
  /\ UNCHANGED <<expired, default, isRefreshing, failedQueue, auth, reloads>>

Logout ==
  /\ auth /\ ~ loading
  /\ access' = None /\ refresh' = None
  /\ auth' = FALSE
  /\ UNCHANGED <<server, default, client, loading, past>>

\* The page is loaded: memory starts over, localStorage is what it was, and
\* fetchUser restores the session if there is a token.
Loaded(token) ==
  [r \in Requests |-> [at |-> IF r = Me /\ token # None THEN "sent" ELSE "idle",
                       retry |-> FALSE, using |-> None,
                       token |-> IF r = Me THEN token ELSE None]]

Reload ==
  /\ reloads < MaxReloads
  /\ reloads' = reloads + 1
  /\ isRefreshing' = FALSE /\ failedQueue' = {}
  /\ default' = None
  /\ req' = Loaded(access)
  /\ auth' = FALSE /\ loading' = (access # None)
  /\ UNCHANGED <<server, access, refresh, crossed>>

Expire(t) ==
  /\ t.n <= issued[t.login] /\ t \notin expired
  /\ expired' = expired \cup {t}
  /\ UNCHANGED <<login, issued, storage, client, react, past>>

-----------------------------------------------------------------------------
\* The first load, with the session of an earlier visit or with none.
Init ==
  /\ login = 1 /\ issued = [l \in Logins |-> IF l = 1 THEN 1 ELSE 0] /\ expired = {}
  /\ \/ access = None /\ refresh = None
     \/ access = [login |-> 1, n |-> 1] /\ refresh = 1
  /\ default = None
  /\ isRefreshing = FALSE /\ failedQueue = {}
  /\ req = Loaded(access)
  /\ auth = FALSE /\ loading = (access # None)
  /\ crossed = FALSE /\ reloads = 0

Progress(r) ==
  \/ Answer(r)
  \/ Drop(r)
  \/ Reject(r)
  \/ Enqueue(r)
  \/ StartRefresh(r)
  \/ Refreshed(r)
  \/ RefreshRejected(r)
  \/ RefreshDropped(r)

Next ==
  \/ \E r \in Requests : Send(r)
  \/ \E r \in Requests : Progress(r)
  \/ Login
  \/ Logout
  \/ Reload
  \/ \E t \in Tokens : Expire(t)

\* Every request on the wire ends, the refresh included: the browser gives up on
\* it at last, if only by its own connection timeout.
Fairness == \A r \in Requests : WF_vars(Progress(r))

Spec == Init /\ [][Next]_vars /\ Fairness

-----------------------------------------------------------------------------
(* Properties. *)

\* One refresh at a time, and requests wait only while it runs: nobody is left in
\* failedQueue by a refresh that is over.
QueueServed ==
  /\ \A r, s \in Requests :
       req[r].at = "refreshing" /\ req[s].at = "refreshing" => r = s
  /\ isRefreshing <=> \E r \in Requests : req[r].at = "refreshing"
  /\ failedQueue = {r \in Requests : req[r].at = "queued"}
  /\ failedQueue # {} => isRefreshing

\* As long as no work of a login met another login, the stored tokens are of one
\* login, the present one, and who is signed in has a token.
OneIdentity ==
  ~ crossed => /\ access # None => access.login = login
               /\ refresh # None => refresh = login
               /\ auth => access # None /\ refresh # None

\* A request ends, parked or not, and never by being forgotten.
RequestsSettle ==
  \A r \in Requests : InFlight(r) ~> ~ InFlight(r)

\* AuthContext.tsx: "A transient network failure or 5xx must not log the user out."
TransientKeepsSession ==
  [][(\E r \in Requests : RefreshDropped(r)) => refresh' = refresh]_vars
=============================================================================
