------------------------ MODULE SessionClient_proofs ------------------------
(***************************************************************************)
(* Theorems about SessionClient, for any number of requests, logins,       *)
(* tokens and reloads.                                                     *)
(***************************************************************************)
EXTENDS SessionClient, TLAPS

-----------------------------------------------------------------------------
(* Types.  The flags are kept apart from the data: the provers treat them    *)
(* separately.                                                               *)

Flags == /\ isRefreshing \in BOOLEAN /\ auth \in BOOLEAN
         /\ loading \in BOOLEAN /\ crossed \in BOOLEAN

Server ==
  /\ login \in Logins
  /\ issued \in [Logins -> 0 .. MaxTokens]
  /\ expired \subseteq Tokens
  /\ reloads \in 0 .. MaxReloads

Storage ==
  /\ access \in Tokens \cup {None} /\ default \in Tokens \cup {None}
  /\ refresh \in Logins \cup {None}

InMemory ==
  /\ failedQueue \subseteq Requests
  /\ req \in [Requests -> Request]

Typed == Flags /\ Server /\ Storage /\ InMemory

\* Ending a set of requests keeps the type, and touches nobody else.
LEMMA SettledEffect ==
  ASSUME InMemory, NEW S \in SUBSET Requests, NEW stage \in Stage
  PROVE  /\ Settled(S, stage) \in [Requests -> Request]
         /\ \A r \in Requests :
              /\ r \in S => Settled(S, stage)[r].at = stage
              /\ r \notin S => Settled(S, stage)[r] = req[r]
<1>1. \A r \in Requests : [req[r] EXCEPT !.at = stage] \in Request /\ [req[r] EXCEPT !.at = stage].at = stage
  BY DEF InMemory, Request
<1> QED
  BY <1>1 DEF InMemory, Settled

\* Sending a set of requests again does the same.
LEMMA ResentEffect ==
  ASSUME InMemory, NEW S \in SUBSET Requests, NEW t \in Tokens
  PROVE  /\ Resent(S, t) \in [Requests -> Request]
         /\ \A r \in Requests :
              /\ r \in S => Resent(S, t)[r].at = "sent"
              /\ r \notin S => Resent(S, t)[r] = req[r]
<1>1. \A r \in Requests : /\ [req[r] EXCEPT !.at = "sent", !.token = t] \in Request
                           /\ [req[r] EXCEPT !.at = "sent", !.token = t].at = "sent"
  BY DEF InMemory, Request, Stage
<1> QED
  BY <1>1 DEF InMemory, Resent

\* The token a refresh brings is one of its login.
LEMMA NewToken ==
  ASSUME Typed, NEW r \in Requests, req[r].using \in Logins, issued[req[r].using] < MaxTokens
  PROVE  [login |-> req[r].using, n |-> issued[req[r].using] + 1] \in Tokens
BY BoundAssumption DEF Typed, Server, Tokens, Logins

\* A refresh is made with a refresh token.
UsesToken == \A r \in Requests : req[r].at = "refreshing" => req[r].using \in Logins


LEMMA AnswerEffect ==
  ASSUME InMemory, NEW r \in Requests, Answer(r)
  PROVE  /\ req' \in [Requests -> Request]
         /\ \A s \in Requests : s \in {r} => req'[s].at = "ok"
         /\ \A s \in Requests : s \notin {r} => req'[s] = req[s]
<1> DEFINE S == {r}
<1>1. S \in SUBSET Requests /\ "ok" \in Stage
  BY DEF InMemory, Stage
<1>2. req' = Settled(S, "ok")
  BY DEF Answer
<1> HIDE DEF S
<1>3. /\ Settled(S, "ok") \in [Requests -> Request]
      /\ \A s \in Requests : s \in S => Settled(S, "ok")[s].at = "ok"
      /\ \A s \in Requests : s \notin S => Settled(S, "ok")[s] = req[s]
  BY <1>1, SettledEffect
<1> QED
  BY <1>2, <1>3 DEF S

LEMMA DropEffect ==
  ASSUME InMemory, NEW r \in Requests, Drop(r)
  PROVE  /\ req' \in [Requests -> Request]
         /\ \A s \in Requests : s \in {r} => req'[s].at = "failed"
         /\ \A s \in Requests : s \notin {r} => req'[s] = req[s]
<1> DEFINE S == {r}
<1>1. S \in SUBSET Requests /\ "failed" \in Stage
  BY DEF InMemory, Stage
<1>2. req' = Settled(S, "failed")
  BY DEF Drop
<1> HIDE DEF S
<1>3. /\ Settled(S, "failed") \in [Requests -> Request]
      /\ \A s \in Requests : s \in S => Settled(S, "failed")[s].at = "failed"
      /\ \A s \in Requests : s \notin S => Settled(S, "failed")[s] = req[s]
  BY <1>1, SettledEffect
<1> QED
  BY <1>2, <1>3 DEF S

LEMMA RejectEffect ==
  ASSUME InMemory, NEW r \in Requests, Reject(r)
  PROVE  /\ req' \in [Requests -> Request]
         /\ \A s \in Requests : s \in {r} => req'[s].at = "failed"
         /\ \A s \in Requests : s \notin {r} => req'[s] = req[s]
<1> DEFINE S == {r}
<1>1. S \in SUBSET Requests /\ "failed" \in Stage
  BY DEF InMemory, Stage
<1>2. req' = Settled(S, "failed")
  BY DEF Reject
<1> HIDE DEF S
<1>3. /\ Settled(S, "failed") \in [Requests -> Request]
      /\ \A s \in Requests : s \in S => Settled(S, "failed")[s].at = "failed"
      /\ \A s \in Requests : s \notin S => Settled(S, "failed")[s] = req[s]
  BY <1>1, SettledEffect
<1> QED
  BY <1>2, <1>3 DEF S

LEMMA SignOutEffect ==
  ASSUME InMemory, NEW r \in Requests, SignOut(r)
  PROVE  /\ req' \in [Requests -> Request]
         /\ \A s \in Requests : s \in (failedQueue \cup {r}) => req'[s].at = "failed"
         /\ \A s \in Requests : s \notin (failedQueue \cup {r}) => req'[s] = req[s]
<1> DEFINE S == (failedQueue \cup {r})
<1>1. S \in SUBSET Requests /\ "failed" \in Stage
  BY DEF InMemory, Stage
<1>2. req' = Settled(S, "failed")
  BY DEF SignOut
<1> HIDE DEF S
<1>3. /\ Settled(S, "failed") \in [Requests -> Request]
      /\ \A s \in Requests : s \in S => Settled(S, "failed")[s].at = "failed"
      /\ \A s \in Requests : s \notin S => Settled(S, "failed")[s] = req[s]
  BY <1>1, SettledEffect
<1> QED
  BY <1>2, <1>3 DEF S

LEMMA RefreshedEffect ==
  ASSUME Typed, UsesToken, NEW r \in Requests, Refreshed(r)
  PROVE  LET l == req[r].using
             t == [login |-> l, n |-> issued[l] + 1]
         IN  /\ l \in Logins /\ issued[l] + 1 \in 0 .. MaxTokens /\ t \in Tokens /\ t.login = l
             /\ access' = t /\ default' = t /\ issued' = [issued EXCEPT ![l] = @ + 1]
             /\ req' \in [Requests -> Request]
             /\ \A s \in Requests : s \in failedQueue \cup {r} => req'[s].at = "sent"
             /\ \A s \in Requests : s \notin failedQueue \cup {r} => req'[s] = req[s]
<1> DEFINE l == req[r].using
           t == [login |-> l, n |-> issued[l] + 1]
           S == failedQueue \cup {r}
<1>1. l \in Logins /\ issued[l] < MaxTokens
  BY DEF Refreshed, UsesToken
<1>2. issued[l] \in 0 .. MaxTokens
  BY <1>1 DEF Typed, Server
<1>3. issued[l] + 1 \in 0 .. MaxTokens /\ t \in Tokens /\ t.login = l
  BY <1>1, <1>2, NewToken, BoundAssumption
<1>4. /\ access' = t /\ default' = t /\ issued' = [issued EXCEPT ![l] = @ + 1]
      /\ req' = Resent(S, t) /\ S \in SUBSET Requests /\ InMemory
  BY DEF Refreshed, Typed, InMemory
<1> HIDE DEF l, t, S
<1>5. /\ Resent(S, t) \in [Requests -> Request]
      /\ \A s \in Requests : s \in S => Resent(S, t)[s].at = "sent"
      /\ \A s \in Requests : s \notin S => Resent(S, t)[s] = req[s]
  BY <1>3, <1>4, ResentEffect
<1> QED
  BY <1>1, <1>3, <1>4, <1>5 DEF l, t, S

LEMMA TypeStep == Typed /\ UsesToken /\ [Next]_vars => (Typed /\ UsesToken)'
<1> SUFFICES ASSUME Typed, UsesToken, [Next]_vars
             PROVE  (Flags /\ Server /\ Storage /\ InMemory /\ UsesToken)'
  BY DEF Typed
<1> USE MeAssumption, NoneAssumption, BoundAssumption
    DEF Typed, Flags, Server, Storage, InMemory, UsesToken, Request, Stage,
        vars, server, storage, client, react, past
<1>1. ASSUME NEW r \in Requests, Send(r) PROVE (Flags /\ Server /\ Storage /\ InMemory /\ UsesToken)'
  <2>1. Flags'
    BY <1>1 DEF Send, Bearer
  <2>2. Server'
    BY <1>1 DEF Send, Bearer, Logins, Tokens
  <2>3. Storage'
    BY <1>1 DEF Send, Bearer, Logins, Tokens
  <2>4. InMemory'
    BY <1>1 DEF Send, Bearer, Logins, Tokens
  <2>5. UsesToken'
    BY <1>1 DEF Send, Bearer
  <2> QED
    BY <2>1, <2>2, <2>3, <2>4, <2>5
<1>2. ASSUME NEW r \in Requests, Answer(r) PROVE (Flags /\ Server /\ Storage /\ InMemory /\ UsesToken)'
  <2>1. Flags'
    BY <1>2, AnswerEffect DEF Answer
  <2>2. Server'
    BY <1>2, AnswerEffect DEF Answer, Logins, Tokens
  <2>3. Storage'
    BY <1>2, AnswerEffect DEF Answer, Logins, Tokens
  <2>4. InMemory'
    BY <1>2, AnswerEffect DEF Answer, Logins, Tokens
  <2>5. UsesToken'
    BY <1>2, AnswerEffect DEF Answer
  <2> QED
    BY <2>1, <2>2, <2>3, <2>4, <2>5
<1>3. ASSUME NEW r \in Requests, Drop(r) PROVE (Flags /\ Server /\ Storage /\ InMemory /\ UsesToken)'
  <2>1. Flags'
    BY <1>3, DropEffect DEF Drop, MeFailed
  <2>2. Server'
    BY <1>3, DropEffect DEF Drop, MeFailed, Logins, Tokens
  <2>3. Storage'
    BY <1>3, DropEffect DEF Drop, MeFailed, Logins, Tokens
  <2>4. InMemory'
    BY <1>3, DropEffect DEF Drop, MeFailed, Logins, Tokens
  <2>5. UsesToken'
    BY <1>3, DropEffect DEF Drop, MeFailed
  <2> QED
    BY <2>1, <2>2, <2>3, <2>4, <2>5
<1>4. ASSUME NEW r \in Requests, Reject(r) PROVE (Flags /\ Server /\ Storage /\ InMemory /\ UsesToken)'
  <2>1. Flags'
    BY <1>4, RejectEffect DEF Reject, MeFailed
  <2>2. Server'
    BY <1>4, RejectEffect DEF Reject, MeFailed, Logins, Tokens
  <2>3. Storage'
    BY <1>4, RejectEffect DEF Reject, MeFailed, Logins, Tokens
  <2>4. InMemory'
    BY <1>4, RejectEffect DEF Reject, MeFailed, Logins, Tokens
  <2>5. UsesToken'
    BY <1>4, RejectEffect DEF Reject, MeFailed
  <2> QED
    BY <2>1, <2>2, <2>3, <2>4, <2>5
<1>5. ASSUME NEW r \in Requests, Enqueue(r) PROVE (Flags /\ Server /\ Storage /\ InMemory /\ UsesToken)'
  <2>1. Flags'
    BY <1>5 DEF Enqueue
  <2>2. Server'
    BY <1>5 DEF Enqueue, Logins, Tokens
  <2>3. Storage'
    BY <1>5 DEF Enqueue, Logins, Tokens
  <2>4. InMemory'
    BY <1>5 DEF Enqueue, Logins, Tokens
  <2>5. UsesToken'
    BY <1>5 DEF Enqueue
  <2> QED
    BY <2>1, <2>2, <2>3, <2>4, <2>5
<1>6. ASSUME NEW r \in Requests, StartRefresh(r) PROVE (Flags /\ Server /\ Storage /\ InMemory /\ UsesToken)'
  <2>1. Flags'
    BY <1>6 DEF StartRefresh
  <2>2. Server'
    BY <1>6 DEF StartRefresh, Logins, Tokens
  <2>3. Storage'
    BY <1>6 DEF StartRefresh, Logins, Tokens
  <2>4. InMemory'
    BY <1>6 DEF StartRefresh, Logins, Tokens
  <2>5. UsesToken'
    BY <1>6 DEF StartRefresh
  <2> QED
    BY <2>1, <2>2, <2>3, <2>4, <2>5
<1>7. ASSUME NEW r \in Requests, Refreshed(r) PROVE (Flags /\ Server /\ Storage /\ InMemory /\ UsesToken)'
  <2>1. Flags'
    BY <1>7, RefreshedEffect DEF Refreshed
  <2>2. Server'
    BY <1>7, RefreshedEffect DEF Refreshed, Logins, Tokens
  <2>3. Storage'
    BY <1>7, RefreshedEffect DEF Refreshed, Logins, Tokens
  <2>4. InMemory'
    BY <1>7, RefreshedEffect DEF Refreshed, Logins, Tokens
  <2>5. UsesToken'
    BY <1>7, RefreshedEffect DEF Refreshed
  <2> QED
    BY <2>1, <2>2, <2>3, <2>4, <2>5
<1>8. ASSUME NEW r \in Requests, req[r].at = "refreshing", SignOut(r) PROVE (Flags /\ Server /\ Storage /\ InMemory /\ UsesToken)'
  <2>1. Flags'
    BY <1>8, SignOutEffect DEF SignOut
  <2>2. Server'
    BY <1>8, SignOutEffect DEF SignOut, Logins, Tokens
  <2>3. Storage'
    BY <1>8, SignOutEffect DEF SignOut, Logins, Tokens
  <2>4. InMemory'
    BY <1>8, SignOutEffect DEF SignOut, Logins, Tokens
  <2>5. UsesToken'
    BY <1>8, SignOutEffect DEF SignOut
  <2> QED
    BY <2>1, <2>2, <2>3, <2>4, <2>5
<1>9. CASE Login
  <2>1. Flags'
    BY <1>9 DEF Login
  <2>2. Server'
    BY <1>9 DEF Login, Logins, Tokens
  <2>3. Storage'
    BY <1>9 DEF Login, Logins, Tokens
  <2>4. InMemory'
    BY <1>9 DEF Login, Logins, Tokens
  <2>5. UsesToken'
    BY <1>9 DEF Login
  <2> QED
    BY <2>1, <2>2, <2>3, <2>4, <2>5
<1>10. CASE Logout
  <2>1. Flags'
    BY <1>10 DEF Logout
  <2>2. Server'
    BY <1>10 DEF Logout, Logins, Tokens
  <2>3. Storage'
    BY <1>10 DEF Logout, Logins, Tokens
  <2>4. InMemory'
    BY <1>10 DEF Logout, Logins, Tokens
  <2>5. UsesToken'
    BY <1>10 DEF Logout
  <2> QED
    BY <2>1, <2>2, <2>3, <2>4, <2>5
<1>11. CASE Reload
  <2>1. Flags'
    BY <1>11 DEF Reload, Loaded
  <2>2. Server'
    BY <1>11 DEF Reload, Loaded, Logins, Tokens
  <2>3. Storage'
    BY <1>11 DEF Reload, Loaded, Logins, Tokens
  <2>4. InMemory'
    BY <1>11 DEF Reload, Loaded, Logins, Tokens
  <2>5. UsesToken'
    BY <1>11 DEF Reload, Loaded
  <2> QED
    BY <2>1, <2>2, <2>3, <2>4, <2>5
<1>12. ASSUME NEW t \in Tokens, Expire(t) PROVE (Flags /\ Server /\ Storage /\ InMemory /\ UsesToken)'
  <2>1. Flags'
    BY <1>12 DEF Expire
  <2>2. Server'
    BY <1>12 DEF Expire, Logins, Tokens
  <2>3. Storage'
    BY <1>12 DEF Expire, Logins, Tokens
  <2>4. InMemory'
    BY <1>12 DEF Expire, Logins, Tokens
  <2>5. UsesToken'
    BY <1>12 DEF Expire
  <2> QED
    BY <2>1, <2>2, <2>3, <2>4, <2>5
<1>13. CASE UNCHANGED vars
  <2>1. Flags'
    BY <1>13 DEF vars
  <2>2. Server'
    BY <1>13 DEF vars, Logins, Tokens
  <2>3. Storage'
    BY <1>13 DEF vars, Logins, Tokens
  <2>4. InMemory'
    BY <1>13 DEF vars, Logins, Tokens
  <2>5. UsesToken'
    BY <1>13 DEF vars
  <2> QED
    BY <2>1, <2>2, <2>3, <2>4, <2>5
<1> QED
  BY <1>1, <1>2, <1>3, <1>4, <1>5, <1>6, <1>7, <1>8, <1>9, <1>10, <1>11, <1>12, <1>13 DEF Next, Progress, RefreshRejected, RefreshDropped

-----------------------------------------------------------------------------
(* The queue. *)

OneRefresher == \A r, s \in Requests :
                  req[r].at = "refreshing" /\ req[s].at = "refreshing" => r = s
FlagIsTrue   == isRefreshing <=> \E r \in Requests : req[r].at = "refreshing"
QueueIsTrue  == \A r \in Requests : r \in failedQueue <=> req[r].at = "queued"
QueueIsRun   == failedQueue # {} => isRefreshing

Queue == OneRefresher /\ FlagIsTrue /\ QueueIsTrue /\ QueueIsRun

\* A step of one request outside the queue.
Plain(r) ==
  /\ req[r].at \notin {"refreshing", "queued"} /\ req'[r].at \notin {"refreshing", "queued"}
  /\ \A s \in Requests : s # r => req'[s].at = req[s].at
  /\ isRefreshing' = isRefreshing /\ failedQueue' = failedQueue

\* The end of a refresh.
Ends(r) ==
  /\ req[r].at = "refreshing"
  /\ \A s \in Requests : /\ s = r \/ s \in failedQueue => req'[s].at \notin {"refreshing", "queued"}
                         /\ s # r /\ s \notin failedQueue => req'[s].at = req[s].at
  /\ isRefreshing' = FALSE /\ failedQueue' = {}

LEMMA PlainKeepsQueue == \A r \in Requests : Queue /\ Plain(r) => Queue'
<1> SUFFICES ASSUME NEW r \in Requests, Queue, Plain(r)
             PROVE  (OneRefresher /\ FlagIsTrue /\ QueueIsTrue /\ QueueIsRun)'
  BY DEF Queue
<1> USE DEF Queue, Plain
<1>1. OneRefresher'
  BY DEF OneRefresher
<1>2. \A s \in Requests : req'[s].at = "refreshing" <=> req[s].at = "refreshing"
  OBVIOUS
<1>3. FlagIsTrue'
  BY <1>2, Zenon DEF FlagIsTrue
<1>4. QueueIsTrue'
  BY DEF QueueIsTrue
<1>5. QueueIsRun'
  BY DEF QueueIsRun
<1> QED
  BY <1>1, <1>3, <1>4, <1>5

LEMMA EndServesQueue == \A r \in Requests : Queue /\ Ends(r) => Queue'
<1> SUFFICES ASSUME NEW r \in Requests, Queue, Ends(r)
             PROVE  (OneRefresher /\ FlagIsTrue /\ QueueIsTrue /\ QueueIsRun)'
  BY DEF Queue
<1>1. \A s \in Requests : req'[s].at # "refreshing" /\ req'[s].at # "queued"
  BY DEF Queue, OneRefresher, QueueIsTrue, Ends
<1> QED
  BY <1>1 DEF OneRefresher, FlagIsTrue, QueueIsTrue, QueueIsRun, Ends

LEMMA QueueStep == Typed /\ UsesToken /\ Queue /\ [Next]_vars => Queue'
<1> SUFFICES ASSUME Typed, UsesToken, Queue, [Next]_vars
             PROVE  Queue'
  OBVIOUS
<1> USE MeAssumption
    DEF Typed, InMemory, Request, Stage, vars, server, storage, client, react, past
<1>1. ASSUME NEW r \in Requests, Send(r) PROVE Queue'
  BY <1>1, PlainKeepsQueue DEF Send, Plain, InFlight
<1>2. ASSUME NEW r \in Requests, Answer(r) PROVE Queue'
  <2>1. req[r].at = "sent" /\ isRefreshing' = isRefreshing /\ failedQueue' = failedQueue
    BY <1>2 DEF Answer
  <2>2. Plain(r)
    BY <1>2, <2>1, AnswerEffect DEF Plain
  <2> QED
    BY <2>2, PlainKeepsQueue
<1>3. ASSUME NEW r \in Requests, Drop(r) PROVE Queue'
  BY <1>3, DropEffect, PlainKeepsQueue DEF Drop, Plain
<1>4. ASSUME NEW r \in Requests, Reject(r) PROVE Queue'
  BY <1>4, RejectEffect, PlainKeepsQueue DEF Reject, Plain
<1>5. ASSUME NEW r \in Requests, Enqueue(r) PROVE Queue'
  BY <1>5 DEF Enqueue, Queue, OneRefresher, FlagIsTrue, QueueIsTrue, QueueIsRun
<1>6. ASSUME NEW r \in Requests, StartRefresh(r) PROVE Queue'
  BY <1>6 DEF StartRefresh, Queue, OneRefresher, FlagIsTrue, QueueIsTrue, QueueIsRun
<1>7. ASSUME NEW r \in Requests, Refreshed(r) PROVE Queue'
  <2>1. req[r].at = "refreshing" /\ isRefreshing' = FALSE /\ failedQueue' = {}
    BY <1>7 DEF Refreshed
  <2>2. /\ \A s \in Requests : s \in failedQueue \cup {r} => req'[s].at = "sent"
        /\ \A s \in Requests : s \notin failedQueue \cup {r} => req'[s] = req[s]
    BY <1>7, RefreshedEffect
  <2>3. Ends(r)
    BY <2>1, <2>2 DEF Ends
  <2> QED
    BY <2>3, EndServesQueue
<1>8. ASSUME NEW r \in Requests, req[r].at = "refreshing", SignOut(r) PROVE Queue'
  <2>1. isRefreshing' = FALSE /\ failedQueue' = {}
    BY <1>8 DEF SignOut
  <2>2. Ends(r)
    BY <1>8, <2>1, SignOutEffect DEF Ends
  <2> QED
    BY <2>2, EndServesQueue
<1>9. CASE Login
  BY <1>9, PlainKeepsQueue DEF Login, Plain, InFlight
<1>10. CASE Logout
  BY <1>10 DEF Logout, Queue, OneRefresher, FlagIsTrue, QueueIsTrue, QueueIsRun
<1>11. CASE Reload
  BY <1>11 DEF Reload, Loaded, Queue, OneRefresher, FlagIsTrue, QueueIsTrue, QueueIsRun
<1>12. ASSUME NEW t \in Tokens, Expire(t) PROVE Queue'
  BY <1>12 DEF Expire, Queue, OneRefresher, FlagIsTrue, QueueIsTrue, QueueIsRun
<1>13. CASE UNCHANGED vars
  BY <1>13 DEF Queue, OneRefresher, FlagIsTrue, QueueIsTrue, QueueIsRun
<1> QED
  BY <1>1, <1>2, <1>3, <1>4, <1>5, <1>6, <1>7, <1>8, <1>9, <1>10, <1>11, <1>12, <1>13
  DEF Next, Progress, RefreshRejected, RefreshDropped

-----------------------------------------------------------------------------
(* The identity.  While fetchUser restores a session nobody is signed in, and,  *)
(* as long as no login met another, nobody else is on the wire, so that no      *)
(* failed refresh takes the tokens away behind its back.                        *)

Tokened == ~ crossed => (access # None <=> refresh # None)
OwnAccess == ~ crossed => (access # None => access.login = login)
OwnRefresh == ~ crossed => (refresh # None => refresh = login)
Signed == ~ crossed => (auth => access # None)
Hidden == InFlight(Me) => ~ auth
Alone == ~ crossed /\ InFlight(Me) => access # None /\ \A s \in Requests : InFlight(s) => s = Me

Identity == Tokened /\ OwnAccess /\ OwnRefresh /\ Signed /\ Hidden /\ Alone

LEMMA IdentityStep == Typed /\ UsesToken /\ Queue /\ Identity /\ [Next]_vars => Identity'
<1> SUFFICES ASSUME Typed, UsesToken, Queue, Identity, [Next]_vars
             PROVE  (Tokened /\ OwnAccess /\ OwnRefresh /\ Signed /\ Hidden /\ Alone)'
  BY DEF Identity
<1> USE MeAssumption, NoneAssumption
    DEF Typed, Flags, Server, Storage, InMemory, Queue, QueueIsTrue, FlagIsTrue,
        Identity, Tokened, OwnAccess, OwnRefresh, Signed, Hidden, Alone,
        InFlight, Request, Stage, vars, server, storage, client, react, past
<1>1. ASSUME NEW r \in Requests, Send(r) PROVE (Tokened /\ OwnAccess /\ OwnRefresh /\ Signed /\ Hidden /\ Alone)'
  <2>1. Tokened'
    BY <1>1 DEF Send, Bearer
  <2>2. OwnAccess'
    BY <1>1 DEF Send, Bearer
  <2>3. OwnRefresh'
    BY <1>1 DEF Send, Bearer
  <2>4. Signed'
    BY <1>1 DEF Send, Bearer
  <2>5. Hidden'
    BY <1>1 DEF Send, Bearer
  <2>6. Alone'
    BY <1>1 DEF Send, Bearer
  <2> QED
    BY <2>1, <2>2, <2>3, <2>4, <2>5, <2>6
<1>2. ASSUME NEW r \in Requests, Answer(r) PROVE (Tokened /\ OwnAccess /\ OwnRefresh /\ Signed /\ Hidden /\ Alone)'
  <2>1. Tokened'
    BY <1>2, AnswerEffect DEF Answer
  <2>2. OwnAccess'
    BY <1>2, AnswerEffect DEF Answer
  <2>3. OwnRefresh'
    BY <1>2, AnswerEffect DEF Answer
  <2>4. Signed'
    BY <1>2, AnswerEffect DEF Answer
  <2>5. Hidden'
    BY <1>2, AnswerEffect DEF Answer
  <2>6. Alone'
    BY <1>2, AnswerEffect DEF Answer
  <2> QED
    BY <2>1, <2>2, <2>3, <2>4, <2>5, <2>6
<1>3. ASSUME NEW r \in Requests, Drop(r) PROVE (Tokened /\ OwnAccess /\ OwnRefresh /\ Signed /\ Hidden /\ Alone)'
  <2>1. Tokened'
    BY <1>3, DropEffect DEF Drop, MeFailed
  <2>2. OwnAccess'
    BY <1>3, DropEffect DEF Drop, MeFailed
  <2>3. OwnRefresh'
    BY <1>3, DropEffect DEF Drop, MeFailed
  <2>4. Signed'
    BY <1>3, DropEffect DEF Drop, MeFailed
  <2>5. Hidden'
    BY <1>3, DropEffect DEF Drop, MeFailed
  <2>6. Alone'
    BY <1>3, DropEffect DEF Drop, MeFailed
  <2> QED
    BY <2>1, <2>2, <2>3, <2>4, <2>5, <2>6
<1>4. ASSUME NEW r \in Requests, Reject(r) PROVE (Tokened /\ OwnAccess /\ OwnRefresh /\ Signed /\ Hidden /\ Alone)'
  <2>1. Tokened'
    BY <1>4, RejectEffect DEF Reject, MeFailed
  <2>2. OwnAccess'
    BY <1>4, RejectEffect DEF Reject, MeFailed
  <2>3. OwnRefresh'
    BY <1>4, RejectEffect DEF Reject, MeFailed
  <2>4. Signed'
    BY <1>4, RejectEffect DEF Reject, MeFailed
  <2>5. Hidden'
    BY <1>4, RejectEffect DEF Reject, MeFailed
  <2>6. Alone'
    BY <1>4, RejectEffect DEF Reject, MeFailed
  <2> QED
    BY <2>1, <2>2, <2>3, <2>4, <2>5, <2>6
<1>5. ASSUME NEW r \in Requests, Enqueue(r) PROVE (Tokened /\ OwnAccess /\ OwnRefresh /\ Signed /\ Hidden /\ Alone)'
  <2>1. Tokened'
    BY <1>5 DEF Enqueue
  <2>2. OwnAccess'
    BY <1>5 DEF Enqueue
  <2>3. OwnRefresh'
    BY <1>5 DEF Enqueue
  <2>4. Signed'
    BY <1>5 DEF Enqueue
  <2>5. Hidden'
    BY <1>5 DEF Enqueue
  <2>6. Alone'
    BY <1>5 DEF Enqueue
  <2> QED
    BY <2>1, <2>2, <2>3, <2>4, <2>5, <2>6
<1>6. ASSUME NEW r \in Requests, StartRefresh(r) PROVE (Tokened /\ OwnAccess /\ OwnRefresh /\ Signed /\ Hidden /\ Alone)'
  <2>1. Tokened'
    BY <1>6 DEF StartRefresh
  <2>2. OwnAccess'
    BY <1>6 DEF StartRefresh
  <2>3. OwnRefresh'
    BY <1>6 DEF StartRefresh
  <2>4. Signed'
    BY <1>6 DEF StartRefresh
  <2>5. Hidden'
    BY <1>6 DEF StartRefresh
  <2>6. Alone'
    BY <1>6 DEF StartRefresh
  <2> QED
    BY <2>1, <2>2, <2>3, <2>4, <2>5, <2>6
<1>7. ASSUME NEW r \in Requests, Refreshed(r) PROVE Identity'
  <2>1. /\ access' = [login |-> req[r].using, n |-> issued[req[r].using] + 1]
        /\ req[r].at = "refreshing" /\ issued[req[r].using] < MaxTokens
    BY <1>7 DEF Refreshed
  <2>2. req[r].using \in Logins
    BY <2>1 DEF UsesToken
  <2>3. access' \in Tokens
    BY <2>1, <2>2, NewToken
  <2>4. /\ \A s \in Requests : s \in failedQueue \cup {r} => req'[s].at = "sent"
        /\ \A s \in Requests : s \notin failedQueue \cup {r} => req'[s] = req[s]
    BY <1>7, RefreshedEffect
  <2>5. access'.login = req[r].using
    BY <2>1
  <2>6. access' # None
    BY <2>3, NoneAssumption
  <2>7. /\ crossed' = (crossed \/ refresh # req[r].using)
        /\ refresh' = refresh /\ login' = login /\ auth' = auth /\ req[r].at = "refreshing"
    BY <1>7 DEF Refreshed
  <2>8. \A s \in Requests : InFlight(s)' => InFlight(s)
    BY <2>4, <2>7
  <2>9. ~ crossed' => ~ crossed /\ refresh = req[r].using
    BY <2>7
  <2> HIDE DEF InFlight
  <2> QED
    BY <2>2, <2>5, <2>6, <2>7, <2>8, <2>9
<1>8. ASSUME NEW r \in Requests, req[r].at = "refreshing", SignOut(r) PROVE (Tokened /\ OwnAccess /\ OwnRefresh /\ Signed /\ Hidden /\ Alone)'
  <2>1. Tokened'
    BY <1>8, SignOutEffect DEF SignOut
  <2>2. OwnAccess'
    BY <1>8, SignOutEffect DEF SignOut
  <2>3. OwnRefresh'
    BY <1>8, SignOutEffect DEF SignOut
  <2>4. Signed'
    BY <1>8, SignOutEffect DEF SignOut
  <2>5. Hidden'
    BY <1>8, SignOutEffect DEF SignOut
  <2>6. Alone'
    BY <1>8, SignOutEffect DEF SignOut
  <2> QED
    BY <2>1, <2>2, <2>3, <2>4, <2>5, <2>6
<1>9. CASE Login
  <2>1. /\ access' \in Tokens /\ access'.login = login' /\ refresh' = login' /\ refresh' \in Logins
        /\ auth' = FALSE /\ crossed' = (crossed \/ \E s \in Requests : InFlight(s))
    BY <1>9, BoundAssumption DEF Login, Tokens, Logins
  <2>2. \A s \in Requests : s # Me => req'[s] = req[s]
    BY <1>9 DEF Login
  <2>3. ~ crossed' => \A s \in Requests : s # Me => ~ InFlight(s)'
    BY <2>1, <2>2
  <2> HIDE DEF InFlight
  <2> QED
    BY <2>1, <2>3
<1>10. CASE Logout
  <2>1. Tokened'
    BY <1>10 DEF Logout
  <2>2. OwnAccess'
    BY <1>10 DEF Logout
  <2>3. OwnRefresh'
    BY <1>10 DEF Logout
  <2>4. Signed'
    BY <1>10 DEF Logout
  <2>5. Hidden'
    BY <1>10 DEF Logout
  <2>6. Alone'
    BY <1>10 DEF Logout
  <2> QED
    BY <2>1, <2>2, <2>3, <2>4, <2>5, <2>6
<1>11. CASE Reload
  <2>1. Tokened'
    BY <1>11 DEF Reload, Loaded
  <2>2. OwnAccess'
    BY <1>11 DEF Reload, Loaded
  <2>3. OwnRefresh'
    BY <1>11 DEF Reload, Loaded
  <2>4. Signed'
    BY <1>11 DEF Reload, Loaded
  <2>5. Hidden'
    BY <1>11 DEF Reload, Loaded
  <2>6. Alone'
    BY <1>11 DEF Reload, Loaded
  <2> QED
    BY <2>1, <2>2, <2>3, <2>4, <2>5, <2>6
<1>12. ASSUME NEW t \in Tokens, Expire(t) PROVE (Tokened /\ OwnAccess /\ OwnRefresh /\ Signed /\ Hidden /\ Alone)'
  <2>1. Tokened'
    BY <1>12 DEF Expire
  <2>2. OwnAccess'
    BY <1>12 DEF Expire
  <2>3. OwnRefresh'
    BY <1>12 DEF Expire
  <2>4. Signed'
    BY <1>12 DEF Expire
  <2>5. Hidden'
    BY <1>12 DEF Expire
  <2>6. Alone'
    BY <1>12 DEF Expire
  <2> QED
    BY <2>1, <2>2, <2>3, <2>4, <2>5, <2>6
<1>13. CASE UNCHANGED vars
  <2>1. Tokened'
    BY <1>13 DEF vars
  <2>2. OwnAccess'
    BY <1>13 DEF vars
  <2>3. OwnRefresh'
    BY <1>13 DEF vars
  <2>4. Signed'
    BY <1>13 DEF vars
  <2>5. Hidden'
    BY <1>13 DEF vars
  <2>6. Alone'
    BY <1>13 DEF vars
  <2> QED
    BY <2>1, <2>2, <2>3, <2>4, <2>5, <2>6
<1> QED
  BY <1>1, <1>2, <1>3, <1>4, <1>5, <1>6, <1>7, <1>8, <1>9, <1>10, <1>11, <1>12, <1>13 DEF Next, Progress, RefreshRejected, RefreshDropped

-----------------------------------------------------------------------------
IInv == Typed /\ UsesToken /\ Queue /\ Identity

LEMMA InitIInv == Init => IInv
<1> SUFFICES ASSUME Init PROVE IInv
  OBVIOUS
<1>1. 1 \in Logins /\ [login |-> 1, n |-> 1] \in Tokens
  BY BoundAssumption DEF Logins, Tokens
<1>2. access \in Tokens \cup {None} /\ refresh \in Logins \cup {None}
  BY <1>1 DEF Init
<1>3. req \in [Requests -> Request]
  BY <1>2 DEF Init, Loaded, Request, Stage
<1>4. \A r \in Requests : \/ req[r].at = "idle"
                          \/ req[r].at = "sent" /\ r = Me /\ access # None
  BY DEF Init, Loaded
<1>5. Flags
  BY DEF Init, Flags
<1>6. Server
  BY <1>1, BoundAssumption DEF Init, Server, Logins
<1>7. Storage /\ InMemory
  BY <1>2, <1>3 DEF Init, Storage, InMemory
<1> HIDE DEF Init
<1>8. failedQueue = {} /\ isRefreshing = FALSE /\ auth = FALSE /\ login = 1
      /\ (access = None <=> refresh = None) /\ (access # None => access.login = 1)
      /\ (refresh # None => refresh = 1)
  BY <1>1, NoneAssumption DEF Init
<1>9. UsesToken
  BY <1>4 DEF UsesToken
<1>10. Queue
  BY <1>4, <1>8 DEF Queue, OneRefresher, FlagIsTrue, QueueIsTrue, QueueIsRun
<1>11. Identity
  BY <1>4, <1>8, MeAssumption
  DEF Identity, Tokened, OwnAccess, OwnRefresh, Signed, Hidden, Alone, InFlight
<1> QED
  BY <1>5, <1>6, <1>7, <1>9, <1>10, <1>11 DEF IInv, Typed

LEMMA AlwaysIInv == Spec => []IInv
<1>1. IInv /\ [Next]_vars => IInv'
  BY TypeStep, QueueStep, IdentityStep DEF IInv
<1> QED
  BY <1>1, InitIInv, PTL DEF Spec

\* The tokens, the queue and the flags have their types.
THEOREM TypeCorrect == Spec => []TypeOK
<1>1. IInv => TypeOK
  BY DEF IInv, Typed, Flags, Server, Storage, InMemory, TypeOK
<1> QED
  BY <1>1, AlwaysIInv, PTL

\* One refresh at a time, and nobody parked without one that will release him.
THEOREM QueueAlwaysServed == Spec => []QueueServed
<1>1. IInv => QueueServed
  BY DEF IInv, Typed, InMemory, Queue, OneRefresher, FlagIsTrue, QueueIsTrue, QueueIsRun, QueueServed
<1> QED
  BY <1>1, AlwaysIInv, PTL

\* While the work of one login never meets another, the tokens are of the present
\* login and nobody is signed in without them.
THEOREM IdentityKept == Spec => []OneIdentity
<1>1. IInv => OneIdentity
  BY DEF IInv, Identity, Tokened, OwnAccess, OwnRefresh, Signed, OneIdentity
<1> QED
  BY <1>1, AlwaysIInv, PTL
=============================================================================
