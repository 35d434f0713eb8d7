----------------------------- MODULE RealtimeBus -----------------------------
(***************************************************************************)
(* The entity bus: one WebSocket of a browser tab over which the server    *)
(* says what changed, so that the open lists and threads are read again    *)
(* (frontend/features/realtime/RealtimeProvider.tsx and                    *)
(* useEntitySubscription.ts; backend/core/consumers.py and entity_bus.py). *)
(*                                                                         *)
(* mountedRef is not a variable: the provider sits in the root layout, and *)
(* the effect that closes a socket opens the next one in the same step.    *)
(* The slots of Sockets are reused: a closed one is the next that          *)
(* connect() makes.  Commands about different topics are not ordered, which *)
(* the server does not notice.                                             *)
(***************************************************************************)
EXTENDS Naturals, Sequences

CONSTANTS
  Sockets,     \* WebSocket objects
  None,        \* no socket
  Topics,
  OnCommit,    \* the topics whose broadcast waits for the commit (comments)
  Components,  \* mounted components that listen
  MAX_RETRIES,
  MaxUsers,    \* bound on the new identities of the user object
  MaxWrites,   \* bound on the writes of one topic
  MaxWire      \* bound on the commands of a topic on their way

ASSUME NoneAssumption  == None \notin Sockets
ASSUME TopicAssumption == OnCommit \subseteq Topics
ASSUME BoundAssumption == /\ MAX_RETRIES \in Nat /\ MaxUsers \in Nat
                          /\ MaxWrites \in Nat /\ MaxWire \in Nat

VARIABLES
  user,       \* is somebody signed in, and his token stored?
  users,      \* user objects the effect has seen
  socketRef,
  retryCount,
  timer,      \* the retry timer of retryTimeoutRef is armed
  refused,    \* history: the server refused the token of this user object
  strays,     \* armed timers that retryTimeoutRef no longer names
  at,         \* the state of each socket
  groups,     \* the groups of its consumer
  wire,       \* its commands on their way to the server, by topic
  inbox,      \* its events on their way to the tab
  listeners,  \* listenersRef: topic -> components
  row,        \* committed version of what a topic is about
  write,      \* the write that is not finished
  loaded,     \* has the query data?
  seen,       \* the version it has
  fetch,      \* the fetch in flight
  joined,     \* history: the last event heard joined the first fetch
  owed        \* history: the version an event on its way has promised

provider == <<user, users, socketRef, retryCount, timer, strays, refused>>
socket   == <<at, groups, wire, inbox>>
cache    == <<loaded, seen, fetch, joined>>
server   == <<row, write>>
vars     == <<provider, socket, listeners, cache, server, owed>>

States   == {"connecting", "open", "closing", "aborted", "closed"}
Commands == {"subscribe", "unsubscribe"}
Versions == 0 .. MaxWrites

NoFetch == [at |-> "none", val |-> 0]
Asked   == [at |-> "asked", val |-> 0]

TypeOK ==
  /\ user \in BOOLEAN /\ timer \in BOOLEAN /\ refused \in BOOLEAN
  /\ users \in 0 .. MaxUsers /\ strays \in Nat
  /\ retryCount \in 0 .. MAX_RETRIES
  /\ socketRef \in Sockets \cup {None}
  /\ at \in [Sockets -> States]
  /\ groups \in [Sockets -> SUBSET Topics]
  /\ wire \in [Sockets -> [Topics -> Seq(Commands)]]
  /\ inbox \in [Sockets -> SUBSET Topics]
  /\ listeners \in [Topics -> SUBSET Components]
  /\ row \in [Topics -> Versions] /\ seen \in [Topics -> Versions]
  /\ owed \in [Topics -> Versions]
  /\ loaded \in [Topics -> BOOLEAN] /\ joined \in [Topics -> BOOLEAN]
  /\ write \in [Topics -> {"none", "saved", "broadcast", "committed"}]
  /\ fetch \in [Topics -> {NoFetch, Asked} \cup [at: {"read"}, val: Versions]]

Listened(t) == listeners[t] # {}

\* sendIfOpen: only socketRef is spoken to, and only if it is open.
Spoken(s) == s = socketRef /\ at[s] = "open"

-----------------------------------------------------------------------------
(* The provider. *)

\* The sockets of S lose what was on its way, and their consumers leave.
Emptied(S) ==
  /\ owed'   = [t \in Topics |-> IF \E s \in S \ {None} : t \in inbox[s] THEN 0 ELSE owed[t]]
  /\ groups' = [s \in Sockets |-> IF s \in S THEN {} ELSE groups[s]]
  /\ wire'   = [s \in Sockets |-> IF s \in S THEN [t \in Topics |-> <<>>] ELSE wire[s]]
  /\ inbox'  = [s \in Sockets |-> IF s \in S THEN {} ELSE inbox[s]]

\* close() on an open socket starts the closing handshake, on a connecting one it
\* makes the connection fail.
Closed(state) ==
  CASE state = "open"       -> "closing"
    [] state = "connecting" -> "aborted"
    [] OTHER                -> state

\* The cleanup of the effect, for the socket of socketRef.
Cleanup == [s \in Sockets |-> IF s = socketRef THEN Closed(at[s]) ELSE at[s]]

\* The effect runs again because the user object is another one (login, profile,
\* theme): cleanup, then connect().
UserChanges(s) ==
  /\ users < MaxUsers /\ at[s] = "closed"
  /\ users' = users + 1 /\ refused' = FALSE
  /\ user' = TRUE
  /\ at' = [Cleanup EXCEPT ![s] = "connecting"]
  /\ Emptied({socketRef, s})
  /\ socketRef' = s
  /\ timer' = FALSE
  /\ UNCHANGED <<retryCount, strays, listeners, cache, server>>

Logout ==
  /\ user
  /\ user' = FALSE
  /\ at' = Cleanup
  /\ Emptied({socketRef})
  /\ socketRef' = None
  /\ timer' = FALSE
  /\ UNCHANGED <<users, retryCount, strays, refused, listeners, cache, server>>

\* connect(), called by a retry timer: without a token it gives up.
Connect ==
  \/ ~ user /\ UNCHANGED <<at, socketRef>>
  \/ \E s \in Sockets :
       /\ user /\ at[s] = "closed"
       /\ at' = [at EXCEPT ![s] = "connecting"]
       /\ socketRef' = s

TimerFires ==
  /\ timer /\ timer' = FALSE
  /\ Connect
  /\ UNCHANGED <<user, users, retryCount, strays, refused, groups, wire, inbox, listeners, cache, server, owed>>

StrayFires ==
  /\ strays > 0 /\ strays' = strays - 1
  /\ Connect
  /\ UNCHANGED <<user, users, retryCount, timer, refused, groups, wire, inbox, listeners, cache, server, owed>>

\* onopen, of whichever socket; resubscribeAll speaks to socketRef.
Opens(s) ==
  /\ at[s] = "connecting"
  /\ at' = [at EXCEPT ![s] = "open"]
  /\ retryCount' = 0
  /\ wire' = [q \in Sockets |->
       IF q = socketRef /\ at'[q] = "open"
       THEN [t \in Topics |-> IF Listened(t) THEN Append(wire[q][t], "subscribe") ELSE wire[q][t]]
       ELSE wire[q]]
  /\ UNCHANGED <<user, users, socketRef, timer, strays, refused, groups, inbox, listeners, cache, server, owed>>

\* Variant: a connection that could not be opened is not tried again.
RetriesOpenOnly(s) ==
  /\ at[s] \in {"connecting", "open", "aborted"}
  /\ at' = [at EXCEPT ![s] = "closed"]
  /\ Emptied({s})
  /\ IF retryCount < MAX_RETRIES /\ at[s] = "open"
     THEN /\ retryCount' = retryCount + 1
          /\ timer' = TRUE
          /\ strays' = IF timer THEN strays + 1 ELSE strays
     ELSE UNCHANGED <<retryCount, timer, strays>>
  /\ UNCHANGED <<user, users, socketRef, refused, listeners, cache, server>>

\* Variant: one retry too many.
DropsOnceMore(s) ==
  /\ at[s] \in {"connecting", "open", "aborted"}
  /\ at' = [at EXCEPT ![s] = "closed"]
  /\ Emptied({s})
  /\ IF retryCount <= MAX_RETRIES
     THEN /\ retryCount' = retryCount + 1
          /\ timer' = TRUE
          /\ strays' = IF timer THEN strays + 1 ELSE strays
     ELSE UNCHANGED <<retryCount, timer, strays>>
  /\ UNCHANGED <<user, users, socketRef, refused, listeners, cache, server>>

\* onclose after a lost, failed or aborted connection (1006): try again later, up
\* to MAX_RETRIES.  A timer that is already armed becomes a stray.
Drops(s) ==
  /\ at[s] \in {"connecting", "open", "aborted"}
  /\ at' = [at EXCEPT ![s] = "closed"]
  /\ Emptied({s})
  /\ IF retryCount < MAX_RETRIES
     THEN /\ retryCount' = retryCount + 1
          /\ timer' = TRUE
          /\ strays' = IF timer THEN strays + 1 ELSE strays
     ELSE UNCHANGED <<retryCount, timer, strays>>
  /\ UNCHANGED <<user, users, socketRef, refused, listeners, cache, server>>

\* onclose after a handshake the tab began (1000), or after the server refused
\* the token (4001): never again.
Ends(s) ==
  /\ at[s] \in {"connecting", "closing"}
  /\ at' = [at EXCEPT ![s] = "closed"]
  /\ refused' = (refused \/ at[s] = "connecting")
  /\ UNCHANGED <<user, users, socketRef, retryCount, timer, strays, groups, wire, inbox, listeners, cache, server, owed>>

-----------------------------------------------------------------------------
(* The components. *)

Said(op, t) ==
  wire' = [s \in Sockets |-> IF Spoken(s) THEN [wire[s] EXCEPT ![t] = Append(@, op)] ELSE wire[s]]

Room(t) == \A s \in Sockets : Len(wire[s][t]) < MaxWire

\* The query of a component that mounts: fetched if it has no data or the data is
\* older than staleTime; a fetch in flight is joined.
MountsQuery(t) ==
  \/ fetch[t] = NoFetch /\ fetch' = [fetch EXCEPT ![t] = Asked]
  \/ (loaded[t] \/ fetch[t] # NoFetch) /\ UNCHANGED fetch

\* subscribe(), when a component mounts.
Subscribe(c, t) ==
  /\ c \notin listeners[t] /\ Room(t)
  /\ listeners' = [listeners EXCEPT ![t] = @ \cup {c}]
  /\ IF Listened(t) THEN UNCHANGED wire ELSE Said("subscribe", t)
  /\ MountsQuery(t)
  /\ UNCHANGED <<provider, at, groups, inbox, loaded, seen, joined, server, owed>>

\* Variant: the first component that leaves takes the subscription with it.
UnsubscribeFirst(c, t) ==
  /\ c \in listeners[t] /\ Room(t)
  /\ listeners' = [listeners EXCEPT ![t] = @ \ {c}]
  /\ Said("unsubscribe", t)
  /\ UNCHANGED <<provider, at, groups, inbox, cache, server, owed>>

\* Its return value: the last component of a topic unsubscribes, and the fetch
\* nobody waits for is aborted (the query passes its signal on).
Unsubscribe(c, t) ==
  /\ c \in listeners[t] /\ Room(t)
  /\ listeners' = [listeners EXCEPT ![t] = @ \ {c}]
  /\ IF listeners[t] = {c}
     THEN /\ Said("unsubscribe", t)
          /\ fetch' = [fetch EXCEPT ![t] = NoFetch]
          /\ owed' = [owed EXCEPT ![t] = 0]
     ELSE UNCHANGED <<wire, fetch, owed>>
  /\ UNCHANGED <<provider, at, groups, inbox, loaded, seen, joined, server>>

\* A query nobody observes leaves the cache after a while (gcTime).
Forgets(t) ==
  /\ loaded[t] /\ ~ Listened(t)
  /\ loaded' = [loaded EXCEPT ![t] = FALSE]
  /\ seen' = [seen EXCEPT ![t] = 0]
  /\ UNCHANGED <<provider, socket, listeners, fetch, joined, server, owed>>

\* Variant: an event during a refetch is taken for answered.
RefetchesOnce(t) ==
  /\ fetch' = IF fetch[t] = NoFetch THEN [fetch EXCEPT ![t] = Asked] ELSE fetch
  /\ joined' = [joined EXCEPT ![t] = fetch[t] # NoFetch /\ ~ loaded[t]]

\* invalidateQueries: a refetch in flight is cancelled and starts over; the first
\* fetch, which has no data to fall back on, is not: the event joins it.
Refetches(t) ==
  \/ /\ fetch[t] = NoFetch \/ loaded[t]
     /\ fetch' = [fetch EXCEPT ![t] = Asked]
     /\ joined' = [joined EXCEPT ![t] = FALSE]
  \/ /\ fetch[t] # NoFetch /\ ~ loaded[t]
     /\ joined' = [joined EXCEPT ![t] = TRUE]
     /\ UNCHANGED fetch

\* handleMessage and the handler of useEntitySubscription.
Hears(s, t) ==
  /\ at[s] = "open" /\ t \in inbox[s]
  /\ inbox' = [inbox EXCEPT ![s] = @ \ {t}]
  /\ IF Listened(t) THEN Refetches(t) ELSE UNCHANGED <<fetch, joined>>
  /\ UNCHANGED <<provider, at, groups, wire, listeners, loaded, seen, server, owed>>

Reads(t) ==
  /\ fetch[t] = Asked
  /\ fetch' = [fetch EXCEPT ![t] = [at |-> "read", val |-> row[t]]]
  /\ UNCHANGED <<provider, socket, listeners, loaded, seen, joined, server, owed>>

Arrives(t) ==
  /\ fetch[t].at = "read"
  /\ seen' = [seen EXCEPT ![t] = fetch[t].val]
  /\ loaded' = [loaded EXCEPT ![t] = TRUE]
  /\ fetch' = [fetch EXCEPT ![t] = NoFetch]
  /\ UNCHANGED <<provider, socket, listeners, joined, server, owed>>

-----------------------------------------------------------------------------
(* The server. *)

\* receive_json: the next command of a topic.
Serves(s, t) ==
  /\ at[s] = "open" /\ wire[s][t] # <<>>
  /\ groups' = [groups EXCEPT ![s] = IF Head(wire[s][t]) = "subscribe" THEN @ \cup {t} ELSE @ \ {t}]
  /\ wire' = [wire EXCEPT ![s][t] = Tail(@)]
  /\ UNCHANGED <<provider, at, inbox, listeners, cache, server, owed>>

\* A transaction writes the row.
Saves(t) ==
  /\ write[t] = "none" /\ row[t] < MaxWrites
  /\ write' = [write EXCEPT ![t] = "saved"]
  /\ UNCHANGED <<provider, socket, listeners, cache, row, owed>>

\* The receiver of post_save broadcasts before the commit, the one of the comments
\* after it; both finish the write.
Broadcast(t) ==
  LET members == {s \in Sockets : at[s] = "open" /\ t \in groups[s]} IN
  /\ write[t] = IF t \in OnCommit THEN "committed" ELSE "saved"
  /\ write' = [write EXCEPT ![t] = IF t \in OnCommit THEN "none" ELSE "broadcast"]
  /\ inbox' = [s \in Sockets |-> IF s \in members THEN inbox[s] \cup {t} ELSE inbox[s]]
  /\ owed' = IF members # {} /\ Listened(t) THEN [owed EXCEPT ![t] = row[t]] ELSE owed
  /\ UNCHANGED <<provider, at, groups, wire, listeners, cache, row>>

Commits(t) ==
  /\ write[t] = IF t \in OnCommit THEN "saved" ELSE "broadcast"
  /\ write' = [write EXCEPT ![t] = IF t \in OnCommit THEN "committed" ELSE "none"]
  /\ row' = [row EXCEPT ![t] = @ + 1]
  /\ UNCHANGED <<provider, socket, listeners, cache, owed>>

-----------------------------------------------------------------------------
\* The page is loaded; nobody is signed in yet.
Init ==
  /\ user = FALSE /\ users = 0 /\ socketRef = None
  /\ retryCount = 0 /\ timer = FALSE /\ strays = 0 /\ refused = FALSE
  /\ at = [s \in Sockets |-> "closed"]
  /\ groups = [s \in Sockets |-> {}] /\ inbox = [s \in Sockets |-> {}]
  /\ wire = [s \in Sockets |-> [t \in Topics |-> <<>>]]
  /\ listeners = [t \in Topics |-> {}]
  /\ row = [t \in Topics |-> 0] /\ seen = [t \in Topics |-> 0] /\ owed = [t \in Topics |-> 0]
  /\ loaded = [t \in Topics |-> FALSE] /\ joined = [t \in Topics |-> FALSE]
  /\ write = [t \in Topics |-> "none"] /\ fetch = [t \in Topics |-> NoFetch]

Next ==
  \/ \E s \in Sockets : UserChanges(s) \/ Opens(s) \/ Drops(s) \/ Ends(s)
  \/ Logout
  \/ TimerFires
  \/ StrayFires
  \/ \E t \in Topics, c \in Components : Subscribe(c, t) \/ Unsubscribe(c, t)
  \/ \E s \in Sockets, t \in Topics : Hears(s, t) \/ Serves(s, t)
  \/ \E t \in Topics : Reads(t) \/ Arrives(t) \/ Forgets(t) \/ Saves(t) \/ Broadcast(t) \/ Commits(t)

\* A handshake ends, one way or the other; timers fire; commands, events and
\* refetches arrive.  Nothing makes a connection succeed, nothing breaks it.
Fairness ==
  /\ \A s \in Sockets : /\ WF_vars(at[s] # "open" /\ (Opens(s) \/ Drops(s) \/ Ends(s)))
                        /\ \A t \in Topics : WF_vars(Hears(s, t)) /\ WF_vars(Serves(s, t))
  /\ \A t \in Topics : WF_vars(Reads(t) \/ Arrives(t))
  /\ WF_vars(TimerFires) /\ WF_vars(StrayFires)

Spec == Init /\ [][Next]_vars /\ Fairness

-----------------------------------------------------------------------------
(* Properties. *)

\* Once the server has run the commands of the socket in use, its consumer is in
\* the groups of the topics somebody listens to, and in no other: reconnections,
\* new users and components that come and go included.
Resubscribed ==
  socketRef # None /\ at[socketRef] = "open" =>
    \A t \in Topics : wire[socketRef][t] = <<>> => (t \in groups[socketRef] <=> Listened(t))

\* While somebody is signed in the tab has a connection, is opening one, or is
\* about to, unless the retries are used up or the server refused the token.
StillTrying ==
  user => \/ \E s \in Sockets : at[s] \in {"connecting", "open", "aborted"}
          \/ timer \/ strays > 0
          \/ retryCount = MAX_RETRIES \/ refused

\* An event of a topic that is broadcast after the commit and reaches the tab ends
\* in a cache at least as new as the event, however many refetches it meets; not
\* so the event that joins the first fetch, whose answer may be older.
EventsRefresh ==
  \A t \in OnCommit : (seen[t] < owed[t] /\ ~ joined[t]) ~> (seen[t] >= owed[t] \/ joined[t])

\* docs/20-contracts/realtime-channels.md: "El bus dice \"X cambió\"; el cliente
\* refetch via su query existente": without the exception.
EveryEventRefreshes ==
  \A t \in OnCommit : (seen[t] < owed[t]) ~> (seen[t] >= owed[t])

\* docs/20-contracts/realtime-channels.md: "Una sola conexión WS por sesión".
OneConnection ==
  \A r, s \in Sockets : at[r] \in {"connecting", "open"} /\ at[s] \in {"connecting", "open"} => r = s
=============================================================================
