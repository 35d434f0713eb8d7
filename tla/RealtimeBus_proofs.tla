-------------------------- MODULE RealtimeBus_proofs --------------------------
(***************************************************************************)
(* Theorems about RealtimeBus, for any number of sockets, topics,          *)
(* components, users, retries and writes.                                  *)
(***************************************************************************)
EXTENDS RealtimeBus, TLAPS

-----------------------------------------------------------------------------
(* Types.                                                                    *)

\* A write that is not committed will still find its version in range.
WriteFits == \A t \in Topics : write[t] \in {"saved", "broadcast"} => row[t] < MaxWrites
Typed     == TypeOK /\ WriteFits

Wires == [Sockets -> [Topics -> Seq(Commands)]]

LEMMA CleanupEffect ==
  ASSUME Typed
  PROVE  /\ Cleanup \in [Sockets -> States]
         /\ \A s \in Sockets : s # socketRef => Cleanup[s] = at[s]
         /\ \A s \in Sockets : s = socketRef => Cleanup[s] # "open"
BY DEF Typed, TypeOK, Cleanup, Closed, States

LEMMA EmptiedTyped ==
  ASSUME Typed, NEW S, Emptied(S)
  PROVE  /\ owed' \in [Topics -> Versions] /\ groups' \in [Sockets -> SUBSET Topics]
         /\ wire' \in Wires /\ inbox' \in [Sockets -> SUBSET Topics]
<1>1. owed' \in [Topics -> Versions]
  BY BoundAssumption DEF Typed, TypeOK, Emptied, Versions
<1>2. wire' \in Wires
  BY DEF Typed, TypeOK, Emptied, Wires
<1> QED
  BY <1>1, <1>2 DEF Typed, TypeOK, Emptied

LEMMA SaidTyped ==
  ASSUME Typed, NEW op \in Commands, NEW t \in Topics, Said(op, t)
  PROVE  /\ wire' \in Wires
         /\ \A s \in Sockets, u \in Topics :
              wire'[s][u] = IF Spoken(s) /\ u = t THEN Append(wire[s][u], op) ELSE wire[s][u]
<1>1. \A s \in Sockets : wire[s] \in [Topics -> Seq(Commands)]
  BY DEF Typed, TypeOK
<1>2. ASSUME NEW s \in Sockets PROVE Append(wire[s][t], op) \in Seq(Commands)
  <2>1. wire[s][t] \in Seq(Commands)
    BY <1>1
  <2> QED
    BY <2>1
<1>3. \A s \in Sockets : [wire[s] EXCEPT ![t] = Append(@, op)] \in [Topics -> Seq(Commands)]
  BY <1>1, <1>2
<1>4. wire' \in Wires
  BY <1>1, <1>3 DEF Said, Wires
<1> QED
  BY <1>1, <1>4 DEF Said

LEMMA UserChangesTyped == ASSUME Typed, NEW s \in Sockets, UserChanges(s) PROVE Typed'
<1>1. users' \in 0 .. MaxUsers
  BY BoundAssumption DEF Typed, TypeOK, UserChanges
<1>2. at' \in [Sockets -> States]
  BY CleanupEffect DEF UserChanges, States
<1>3. Emptied({socketRef, s})
  BY DEF UserChanges
<1> QED
  BY <1>1, <1>2, <1>3, EmptiedTyped DEF Typed, TypeOK, WriteFits, UserChanges, Wires, cache, server

LEMMA LogoutTyped == ASSUME Typed, Logout PROVE Typed'
<1>1. Emptied({socketRef})
  BY DEF Logout
<1> QED
  BY <1>1, CleanupEffect, EmptiedTyped
  DEF Typed, TypeOK, WriteFits, Logout, Wires, cache, server

LEMMA ConnectTyped ==
  ASSUME Typed, Connect PROVE at' \in [Sockets -> States] /\ socketRef' \in Sockets \cup {None}
BY DEF Typed, TypeOK, Connect, States

LEMMA TimerFiresTyped == ASSUME Typed, TimerFires PROVE Typed'
BY ConnectTyped DEF Typed, TypeOK, WriteFits, TimerFires, cache, server

LEMMA StrayFiresTyped == ASSUME Typed, StrayFires PROVE Typed'
<1>1. strays' \in Nat
  BY DEF Typed, TypeOK, StrayFires
<1> QED
  BY <1>1, ConnectTyped DEF Typed, TypeOK, WriteFits, StrayFires, cache, server

LEMMA OpensTyped == ASSUME Typed, NEW s \in Sockets, Opens(s) PROVE Typed'
<1>1. at' \in [Sockets -> States]
  BY DEF Typed, TypeOK, Opens, States
<1>2. wire' \in Wires
  <2>1. \A q \in Sockets : wire[q] \in [Topics -> Seq(Commands)]
    BY DEF Typed, TypeOK
  <2>2. \A q \in Sockets, t \in Topics : Append(wire[q][t], "subscribe") \in Seq(Commands)
    BY <2>1 DEF Commands
  <2>3. \A q \in Sockets :
          [t \in Topics |-> IF Listened(t) THEN Append(wire[q][t], "subscribe") ELSE wire[q][t]]
            \in [Topics -> Seq(Commands)]
    BY <2>1, <2>2
  <2> QED
    BY <2>1, <2>3 DEF Opens, Wires
<1>3. retryCount' \in 0 .. MAX_RETRIES
  BY BoundAssumption DEF Opens
<1> QED
  BY <1>1, <1>2, <1>3 DEF Typed, TypeOK, WriteFits, Opens, Wires, cache, server

LEMMA DropsTyped == ASSUME Typed, NEW s \in Sockets, Drops(s) PROVE Typed'
<1>1. at' \in [Sockets -> States]
  BY DEF Typed, TypeOK, Drops, States
<1>2. retryCount' \in 0 .. MAX_RETRIES
  BY BoundAssumption DEF Typed, TypeOK, Drops
<1>3. timer' \in BOOLEAN
  BY DEF Typed, TypeOK, Drops
<1>4. strays' \in Nat
  BY DEF Typed, TypeOK, Drops
<1>5. Emptied({s})
  BY DEF Drops
<1> QED
  BY <1>1, <1>2, <1>3, <1>4, <1>5, EmptiedTyped
  DEF Typed, TypeOK, WriteFits, Drops, Wires, cache, server

LEMMA EndsTyped == ASSUME Typed, NEW s \in Sockets, Ends(s) PROVE Typed'
<1>1. at' \in [Sockets -> States] /\ refused' \in BOOLEAN
  BY DEF Typed, TypeOK, Ends, States
<1> QED
  BY <1>1 DEF Typed, TypeOK, WriteFits, Ends, cache, server

LEMMA MountsQueryTyped ==
  ASSUME Typed, NEW t \in Topics, MountsQuery(t) PROVE fetch' \in [Topics -> {NoFetch, Asked} \cup [at: {"read"}, val: Versions]]
<1>1. fetch \in [Topics -> {NoFetch, Asked} \cup [at: {"read"}, val: Versions]]
  BY DEF Typed, TypeOK
<1> QED
  BY <1>1 DEF MountsQuery

LEMMA RefetchesTyped ==
  ASSUME Typed, NEW t \in Topics, Refetches(t)
  PROVE  fetch' \in [Topics -> {NoFetch, Asked} \cup [at: {"read"}, val: Versions]] /\ joined' \in [Topics -> BOOLEAN]
<1>1. fetch \in [Topics -> {NoFetch, Asked} \cup [at: {"read"}, val: Versions]] /\ joined \in [Topics -> BOOLEAN]
  BY DEF Typed, TypeOK
<1> QED
  BY <1>1 DEF Refetches

LEMMA SubscribeTyped ==
  ASSUME Typed, NEW c \in Components, NEW t \in Topics, Subscribe(c, t) PROVE Typed'
<1>1. wire' \in Wires
  <2>1. CASE Listened(t)
    BY <2>1 DEF Subscribe, Typed, TypeOK, Wires
  <2>2. CASE ~Listened(t)
    BY <2>2, SaidTyped DEF Subscribe, Commands
  <2> QED
    BY <2>1, <2>2
<1>2. fetch' \in [Topics -> {NoFetch, Asked} \cup [at: {"read"}, val: Versions]]
  BY MountsQueryTyped DEF Subscribe
<1> QED
  BY <1>1, <1>2 DEF Typed, TypeOK, WriteFits, Subscribe, Wires, provider, server

LEMMA UnsubscribeTyped ==
  ASSUME Typed, NEW c \in Components, NEW t \in Topics, Unsubscribe(c, t) PROVE Typed'
<1>1. wire' \in Wires
  <2>1. CASE listeners[t] = {c}
    BY <2>1, SaidTyped DEF Unsubscribe, Commands
  <2>2. CASE listeners[t] # {c}
    BY <2>2 DEF Unsubscribe, Typed, TypeOK, Wires
  <2> QED
    BY <2>1, <2>2
<1>2. owed' \in [Topics -> Versions]
  <2>1. owed \in [Topics -> Versions] /\ 0 \in Versions
    BY BoundAssumption DEF Typed, TypeOK, Versions
  <2>2. owed' = owed \/ owed' = [owed EXCEPT ![t] = 0]
    BY DEF Unsubscribe
  <2> QED
    BY <2>1, <2>2
<1> QED
  BY <1>1, <1>2 DEF Typed, TypeOK, WriteFits, Unsubscribe, Wires, provider, cache, server

LEMMA HearsTyped == ASSUME Typed, NEW s \in Sockets, NEW t \in Topics, Hears(s, t) PROVE Typed'
<1>1. fetch' \in [Topics -> {NoFetch, Asked} \cup [at: {"read"}, val: Versions]] /\ joined' \in [Topics -> BOOLEAN]
  <2>1. CASE Listened(t)
    BY <2>1, RefetchesTyped DEF Hears
  <2>2. CASE ~ Listened(t)
    BY <2>2 DEF Hears, Typed, TypeOK
  <2> QED
    BY <2>1, <2>2
<1>2. inbox' \in [Sockets -> SUBSET Topics]
  BY DEF Hears, Typed, TypeOK
<1> QED
  BY <1>1, <1>2 DEF Typed, TypeOK, WriteFits, Hears, provider, server

LEMMA ForgetsTyped == ASSUME Typed, NEW t \in Topics, Forgets(t) PROVE Typed'
<1>1. seen' \in [Topics -> Versions]
  BY BoundAssumption DEF Forgets, Typed, TypeOK, Versions
<1>2. loaded' \in [Topics -> BOOLEAN]
  BY DEF Forgets, Typed, TypeOK
<1> QED
  BY <1>1, <1>2 DEF Typed, TypeOK, WriteFits, Forgets, provider, socket, server

LEMMA ReadsTyped == ASSUME Typed, NEW t \in Topics, Reads(t) PROVE Typed'
<1>1. fetch' \in [Topics -> {NoFetch, Asked} \cup [at: {"read"}, val: Versions]]
  BY DEF Reads, Typed, TypeOK
<1> QED
  BY <1>1 DEF Typed, TypeOK, WriteFits, Reads, provider, socket, server

LEMMA ArrivesTyped == ASSUME Typed, NEW t \in Topics, Arrives(t) PROVE Typed'
<1>1. fetch[t].val \in Versions
  <2>1. fetch[t] \in {NoFetch, Asked} \cup [at: {"read"}, val: Versions]
    BY DEF Typed, TypeOK
  <2>2. fetch[t] # NoFetch /\ fetch[t] # Asked
    BY DEF Arrives, NoFetch, Asked
  <2>3. fetch[t] \in [at: {"read"}, val: Versions]
    BY <2>1, <2>2
  <2> QED
    BY <2>3
<1>2. seen' \in [Topics -> Versions]
  BY <1>1 DEF Arrives, Typed, TypeOK
<1>3. fetch' \in [Topics -> {NoFetch, Asked} \cup [at: {"read"}, val: Versions]]
  BY DEF Arrives, Typed, TypeOK
<1> QED
  BY <1>2, <1>3 DEF Typed, TypeOK, WriteFits, Arrives, provider, socket, server

LEMMA ServesEffect ==
  ASSUME Typed, NEW s \in Sockets, NEW t \in Topics, Serves(s, t)
  PROVE  /\ wire' \in Wires
         /\ wire'[s][t] = Tail(wire[s][t])
         /\ \A r \in Sockets, u \in Topics : r # s \/ u # t => wire'[r][u] = wire[r][u]
<1>1. wire \in Wires /\ wire[s] \in [Topics -> Seq(Commands)]
  BY DEF Typed, TypeOK, Wires
<1>2. Tail(wire[s][t]) \in Seq(Commands)
  BY <1>1 DEF Serves
<1>3. [wire[s] EXCEPT ![t] = Tail(@)] \in [Topics -> Seq(Commands)]
  BY <1>1, <1>2
<1>4. wire' = [wire EXCEPT ![s] = [wire[s] EXCEPT ![t] = Tail(@)]]
  BY DEF Serves
<1> QED
  BY <1>1, <1>3, <1>4 DEF Wires

LEMMA ServesTyped == ASSUME Typed, NEW s \in Sockets, NEW t \in Topics, Serves(s, t) PROVE Typed'
<1>1. groups' \in [Sockets -> SUBSET Topics]
  BY DEF Serves, Typed, TypeOK
<1> QED
  BY <1>1, ServesEffect DEF Typed, TypeOK, WriteFits, Serves, Wires, provider, cache, server

LEMMA SavesTyped == ASSUME Typed, NEW t \in Topics, Saves(t) PROVE Typed'
<1>1. write' \in [Topics -> {"none", "saved", "broadcast", "committed"}]
  BY DEF Saves, Typed, TypeOK
<1>2. WriteFits'
  BY DEF Saves, Typed, TypeOK, WriteFits
<1> QED
  BY <1>1, <1>2 DEF Typed, TypeOK, Saves, provider, socket, cache

LEMMA BroadcastTyped == ASSUME Typed, NEW t \in Topics, Broadcast(t) PROVE Typed'
<1>1. write' \in [Topics -> {"none", "saved", "broadcast", "committed"}]
  BY DEF Broadcast, Typed, TypeOK
<1>2. WriteFits'
  BY DEF Broadcast, Typed, TypeOK, WriteFits
<1>3. inbox' \in [Sockets -> SUBSET Topics]
  BY DEF Broadcast, Typed, TypeOK
<1>4. owed' \in [Topics -> Versions]
  BY DEF Broadcast, Typed, TypeOK
<1> QED
  BY <1>1, <1>2, <1>3, <1>4 DEF Typed, TypeOK, Broadcast, provider, cache

LEMMA CommitsTyped == ASSUME Typed, NEW t \in Topics, Commits(t) PROVE Typed'
<1>1. row[t] \in Nat /\ row[t] < MaxWrites
  BY BoundAssumption DEF Commits, Typed, TypeOK, WriteFits, Versions
<1>2. row' \in [Topics -> Versions]
  BY <1>1, BoundAssumption DEF Commits, Typed, TypeOK, Versions
<1>3. write' \in [Topics -> {"none", "saved", "broadcast", "committed"}]
  BY DEF Commits, Typed, TypeOK
<1>4. WriteFits'
  BY DEF Commits, Typed, TypeOK, WriteFits
<1> QED
  BY <1>2, <1>3, <1>4 DEF Typed, TypeOK, Commits, provider, socket, cache

LEMMA InitTyped == Init => Typed
<1> SUFFICES ASSUME Init PROVE Typed
  OBVIOUS
<1>1. /\ users \in 0 .. MaxUsers /\ retryCount \in 0 .. MAX_RETRIES /\ strays \in Nat
      /\ socketRef \in Sockets \cup {None}
  BY BoundAssumption DEF Init
<1>5. user \in BOOLEAN /\ timer \in BOOLEAN /\ refused \in BOOLEAN
  BY DEF Init
<1>2. /\ at \in [Sockets -> States] /\ groups \in [Sockets -> SUBSET Topics]
      /\ inbox \in [Sockets -> SUBSET Topics] /\ wire \in Wires
  BY DEF Init, States, Wires
<1>3. /\ listeners \in [Topics -> SUBSET Components] /\ row \in [Topics -> Versions]
      /\ seen \in [Topics -> Versions] /\ owed \in [Topics -> Versions]
  BY BoundAssumption DEF Init, Versions
<1>6. loaded \in [Topics -> BOOLEAN] /\ joined \in [Topics -> BOOLEAN]
  BY DEF Init
<1>4. /\ write \in [Topics -> {"none", "saved", "broadcast", "committed"}]
      /\ fetch \in [Topics -> {NoFetch, Asked} \cup [at: {"read"}, val: Versions]] /\ WriteFits
  BY DEF Init, WriteFits
<1> QED
  BY <1>1, <1>2, <1>3, <1>4, <1>5, <1>6 DEF Typed, TypeOK, Wires

LEMMA StepTyped == ASSUME Typed, [Next]_vars PROVE Typed'
<1>1. CASE UNCHANGED vars
  BY <1>1 DEF vars, provider, socket, cache, server, Typed, TypeOK, WriteFits
<1> QED
  BY <1>1, UserChangesTyped, LogoutTyped, TimerFiresTyped, StrayFiresTyped, OpensTyped,
     DropsTyped, EndsTyped, SubscribeTyped, UnsubscribeTyped, HearsTyped, ReadsTyped,
     ArrivesTyped, ForgetsTyped, ServesTyped, SavesTyped, BroadcastTyped,
     CommitsTyped DEF Next

\* RealtimeBus keeps its type invariant.
THEOREM TypeCorrect == Spec => []TypeOK
<1>1. Typed => TypeOK
  BY DEF Typed
<1> QED
  BY <1>1, InitTyped, StepTyped, PTL DEF Spec

-----------------------------------------------------------------------------
(* The connection.                                                           *)

Tries(s) == at[s] \in {"connecting", "open", "aborted"}

LEMMA ConnectTries ==
  ASSUME Typed, Connect, user' = user PROVE user' => \E s \in Sockets : Tries(s)'
BY DEF Typed, TypeOK, Connect, Tries

\* A step that leaves the connection alone.
Apart == UNCHANGED <<provider, at>>

LEMMA StepTries == ASSUME Typed, StillTrying, [Next]_vars PROVE StillTrying'
<1>1. ASSUME Apart PROVE StillTrying'
  BY <1>1 DEF Apart, StillTrying, provider
<1>2. ASSUME NEW s \in Sockets, UserChanges(s) PROVE StillTrying'
  <2>1. at'[s] = "connecting"
    BY <1>2, CleanupEffect DEF UserChanges
  <2> QED
    BY <2>1 DEF StillTrying
<1>3. CASE Logout
  BY <1>3 DEF Logout, StillTrying
<1>4. CASE TimerFires \/ StrayFires
  <2>1. Connect /\ user' = user
    BY <1>4 DEF TimerFires, StrayFires
  <2> QED
    BY <2>1, ConnectTries DEF StillTrying, Tries
<1>5. ASSUME NEW s \in Sockets, Opens(s) PROVE StillTrying'
  <2>1. at'[s] = "open"
    BY <1>5 DEF Opens, Typed, TypeOK
  <2> QED
    BY <2>1 DEF StillTrying
<1>6. ASSUME NEW s \in Sockets, Drops(s) PROVE StillTrying'
  <2>1. timer' \/ retryCount' = MAX_RETRIES
    BY <1>6, BoundAssumption DEF Drops, Typed, TypeOK
  <2> QED
    BY <2>1 DEF StillTrying
<1>7. ASSUME NEW s \in Sockets, Ends(s) PROVE StillTrying'
  <2>1. UNCHANGED <<user, timer, strays, retryCount>> /\ (refused => refused')
    BY <1>7 DEF Ends
  <2>2. CASE at[s] = "connecting"
    BY <1>7, <2>2 DEF Ends, StillTrying
  <2>3. CASE at[s] = "closing"
    <3>1. \A r \in Sockets : Tries(r) => Tries(r)'
      BY <1>7, <2>3 DEF Ends, Tries, Typed, TypeOK
    <3> QED
      BY <2>1, <3>1 DEF StillTrying, Tries
  <2> QED
    BY <1>7, <2>2, <2>3 DEF Ends
<1>8. ASSUME NEW t \in Topics, NEW c \in Components, Subscribe(c, t) \/ Unsubscribe(c, t) PROVE Apart
  BY <1>8 DEF Subscribe, Unsubscribe, Apart
<1>9. ASSUME NEW s \in Sockets, NEW t \in Topics, Hears(s, t) \/ Serves(s, t) PROVE Apart
  BY <1>9 DEF Hears, Serves, Apart
<1>10. ASSUME NEW t \in Topics, Reads(t) \/ Arrives(t) \/ Forgets(t) \/ Saves(t)
            \/ Broadcast(t) \/ Commits(t)
       PROVE  Apart
  BY <1>10 DEF Reads, Arrives, Forgets, Saves, Broadcast, Commits, Apart, socket
<1>11. CASE UNCHANGED vars
  BY <1>1, <1>11 DEF vars, socket, Apart
<1> QED
  BY <1>1, <1>2, <1>3, <1>4, <1>5, <1>6, <1>7, <1>8, <1>9, <1>10, <1>11 DEF Next

\* The tab of a signed-in user never stops looking for a connection unless the
\* retries are used up or the token was refused (connect and onclose).
THEOREM AlwaysTrying == Spec => []StillTrying
<1>1. Init => StillTrying
  BY DEF Init, StillTrying
<1> QED
  BY <1>1, InitTyped, StepTyped, StepTries, PTL DEF Spec

-----------------------------------------------------------------------------
(* The subscriptions.                                                        *)

\* A socket that is not open has no group and nothing on its way.
Idle(s) == groups[s] = {} /\ \A t \in Topics : wire[s][t] = <<>>
Fresh   == \A s \in Sockets : at[s] # "open" => Idle(s)

\* What the server will have made of a topic when it has run the commands.
Promised(s, t) ==
  IF wire[s][t] = <<>> THEN t \in groups[s] ELSE wire[s][t][Len(wire[s][t])] = "subscribe"
InStep(s) == \A t \in Topics : Promised(s, t) <=> Listened(t)
InUse     == socketRef # None /\ at[socketRef] = "open"
Current   == InUse => InStep(socketRef)
Sync      == Fresh /\ Current

LEMMA LastAppended ==
  ASSUME NEW T, NEW q \in Seq(T), NEW x \in T
  PROVE  Append(q, x) # <<>> /\ Append(q, x)[Len(Append(q, x))] = x
OBVIOUS

LEMMA LastOfTail ==
  ASSUME NEW T, NEW q \in Seq(T), q # <<>>, Tail(q) # <<>>
  PROVE  Tail(q)[Len(Tail(q))] = q[Len(q)]
<1>1. Len(q) \in Nat /\ Len(Tail(q)) = Len(q) - 1 /\ Len(Tail(q)) > 0
  OBVIOUS
<1>2. \A i \in 1 .. Len(Tail(q)) : Tail(q)[i] = q[i + 1]
  OBVIOUS
<1> QED
  BY <1>1, <1>2

LEMMA TailOfOne ==
  ASSUME NEW T, NEW q \in Seq(T), q # <<>>, Tail(q) = <<>>
  PROVE  q[Len(q)] = Head(q)
<1> DEFINE n == Len(q)
<1>1. Len(q) \in Nat /\ Len(q) > 0 /\ Len(Tail(q)) = Len(q) - 1
  OBVIOUS
<1>2. Len(<<>>) = 0 /\ Head(q) = q[1]
  OBVIOUS
<1>3. n \in Nat /\ n - 1 = 0
  BY <1>1, <1>2
<1> HIDE DEF n
<1>4. n = 1
  BY <1>3
<1> QED
  BY <1>2, <1>4 DEF n

\* Sockets that close or start over are idle, the others are as they were.
LEMMA EmptiedIdle ==
  ASSUME Typed, NEW S, Emptied(S)
  PROVE  \A s \in Sockets : IF s \in S THEN Idle(s)' ELSE groups'[s] = groups[s] /\ wire'[s] = wire[s]
BY DEF Emptied, Idle

LEMMA UserChangesSync == ASSUME Typed, Sync, NEW s \in Sockets, UserChanges(s) PROVE Sync'
<1>1. \A r \in Sockets :
        IF r \in {socketRef, s} THEN Idle(r)' ELSE groups'[r] = groups[r] /\ wire'[r] = wire[r]
  BY EmptiedIdle DEF UserChanges
<1>2. \A r \in Sockets : r \notin {socketRef, s} => at'[r] = at[r]
  BY CleanupEffect DEF UserChanges
<1>3. Fresh'
  BY <1>1, <1>2 DEF Sync, Fresh, Idle
<1>4. at'[socketRef'] # "open"
  BY CleanupEffect DEF UserChanges
<1> QED
  BY <1>3, <1>4 DEF Sync, Current, InUse

LEMMA LogoutSync == ASSUME Typed, Sync, Logout PROVE Sync'
<1>1. \A r \in Sockets :
        IF r \in {socketRef} THEN Idle(r)' ELSE groups'[r] = groups[r] /\ wire'[r] = wire[r]
  BY EmptiedIdle DEF Logout
<1>2. \A r \in Sockets : r \notin {socketRef} => at'[r] = at[r]
  BY CleanupEffect DEF Logout
<1>3. Fresh'
  BY <1>1, <1>2 DEF Sync, Fresh, Idle
<1> QED
  BY <1>3 DEF Sync, Current, InUse, Logout

LEMMA ConnectSync ==
  ASSUME Typed, Sync, Connect, UNCHANGED <<groups, wire, listeners>> PROVE Sync'
<1>1. CASE UNCHANGED <<at, socketRef>>
  BY <1>1 DEF Sync, Fresh, Idle, Current, InUse, InStep, Promised, Listened
<1>2. ASSUME NEW s \in Sockets, at[s] = "closed", at' = [at EXCEPT ![s] = "connecting"],
             socketRef' = s
      PROVE  Sync'
  <2>1. at'[s] = "connecting" /\ \A r \in Sockets : r # s => at'[r] = at[r]
    BY <1>2 DEF Typed, TypeOK
  <2>2. Fresh'
    BY <1>2, <2>1 DEF Sync, Fresh, Idle
  <2> QED
    BY <1>2, <2>1, <2>2 DEF Sync, Current, InUse
<1> QED
  BY <1>1, <1>2 DEF Connect

LEMMA OpensSync == ASSUME Typed, Sync, NEW s \in Sockets, Opens(s) PROVE Sync'
<1>1. at'[s] = "open" /\ \A r \in Sockets : r # s => at'[r] = at[r]
  BY DEF Opens, Typed, TypeOK
<1>2. UNCHANGED <<socketRef, groups, listeners>>
  BY DEF Opens
<1>3. \A r \in Sockets : r # socketRef \/ at'[r] # "open" => wire'[r] = wire[r]
  BY DEF Opens
<1>4. Fresh'
  BY <1>1, <1>2, <1>3 DEF Sync, Fresh, Idle
<1>5. ASSUME InUse', NEW t \in Topics PROVE Promised(socketRef, t)' <=> Listened(t)'
  <2>1. socketRef \in Sockets /\ at'[socketRef] = "open" /\ Listened(t)' = Listened(t)
    BY <1>2, <1>5 DEF InUse, Typed, TypeOK, Listened
  <2>2. wire'[socketRef][t] = IF Listened(t) THEN Append(wire[socketRef][t], "subscribe")
                                            ELSE wire[socketRef][t]
    BY <2>1 DEF Opens
  <2>3. CASE Listened(t)
    <3>1. wire[socketRef][t] \in Seq(Commands) /\ "subscribe" \in Commands
      BY <2>1 DEF Typed, TypeOK, Commands
    <3>2. wire'[socketRef][t] # <<>> /\ wire'[socketRef][t][Len(wire'[socketRef][t])] = "subscribe"
      BY <2>2, <2>3, <3>1, LastAppended
    <3> QED
      BY <1>2, <2>1, <2>3, <3>2 DEF Promised
  <2>4. CASE ~Listened(t)
    <3>1. ~Promised(socketRef, t)
      <4>1. CASE socketRef = s
        BY <2>1, <4>1 DEF Opens, Sync, Fresh, Idle, Promised
      <4>2. CASE socketRef # s
        BY <1>1, <1>5, <2>1, <2>4, <4>2, <1>2 DEF Sync, Current, InUse, InStep
      <4> QED
        BY <4>1, <4>2
    <3> QED
      BY <1>2, <2>1, <2>2, <2>4, <3>1 DEF Promised
  <2> QED
    BY <2>3, <2>4
<1>6. Current'
  BY <1>2, <1>5 DEF Current, InStep
<1> QED
  BY <1>4, <1>6 DEF Sync

\* A socket that closes: whatever it held is gone, and it is not in use.
LEMMA ClosesSync ==
  ASSUME Typed, Sync, NEW s \in Sockets, at' = [at EXCEPT ![s] = "closed"], Idle(s)',
         \A r \in Sockets : r # s => groups'[r] = groups[r] /\ wire'[r] = wire[r],
         UNCHANGED <<socketRef, listeners>>
  PROVE  Sync'
<1>1. at'[s] = "closed" /\ \A r \in Sockets : r # s => at'[r] = at[r]
  BY DEF Typed, TypeOK
<1>2. Fresh'
  BY <1>1 DEF Sync, Fresh, Idle
<1>3. Current'
  <2>1. SUFFICES ASSUME InUse' PROVE InStep(socketRef)'
    BY DEF Current
  <2>2. socketRef \in Sockets /\ socketRef # s /\ InUse
    BY <1>1, <2>1 DEF InUse, Typed, TypeOK
  <2> QED
    BY <2>2 DEF Sync, Current, InStep, Promised, Listened
<1> QED
  BY <1>2, <1>3 DEF Sync

LEMMA DropsSync == ASSUME Typed, Sync, NEW s \in Sockets, Drops(s) PROVE Sync'
<1>1. \A r \in Sockets :
        IF r \in {s} THEN Idle(r)' ELSE groups'[r] = groups[r] /\ wire'[r] = wire[r]
  BY EmptiedIdle DEF Drops
<1>2. at' = [at EXCEPT ![s] = "closed"] /\ UNCHANGED <<socketRef, listeners>>
  BY DEF Drops
<1> QED
  BY <1>1, <1>2, ClosesSync

LEMMA EndsSync == ASSUME Typed, Sync, NEW s \in Sockets, Ends(s) PROVE Sync'
<1>1. /\ at' = [at EXCEPT ![s] = "closed"] /\ at[s] # "open"
      /\ UNCHANGED <<socketRef, listeners, groups, wire>>
  BY DEF Ends
<1>2. Idle(s)'
  BY <1>1 DEF Sync, Fresh, Idle
<1> QED
  BY <1>1, <1>2, ClosesSync

\* A command about t is the last word about t on the socket in use.
LEMMA SaidSync ==
  ASSUME Typed, Sync, NEW op \in Commands, NEW t \in Topics, Said(op, t),
         UNCHANGED <<socketRef, at, groups>>,
         \A u \in Topics : u # t => listeners'[u] = listeners[u],
         Listened(t)' <=> op = "subscribe"
  PROVE  Sync'
<1>1. \A s \in Sockets, u \in Topics :
        wire'[s][u] = IF Spoken(s) /\ u = t THEN Append(wire[s][u], op) ELSE wire[s][u]
  BY SaidTyped
<1>2. Fresh'
  BY <1>1 DEF Sync, Fresh, Idle, Spoken
<1>3. ASSUME InUse, NEW u \in Topics PROVE Promised(socketRef, u)' <=> Listened(u)'
  <2>1. socketRef \in Sockets /\ Spoken(socketRef) /\ (Promised(socketRef, u) <=> Listened(u))
    BY <1>3 DEF InUse, Spoken, Typed, TypeOK, Sync, Current, InStep
  <2>2. CASE u = t
    <3>1. wire'[socketRef][t] = Append(wire[socketRef][t], op)
      BY <1>1, <2>1
    <3>2. wire[socketRef][t] \in Seq(Commands)
      BY <2>1 DEF Typed, TypeOK
    <3>3. wire'[socketRef][t] # <<>> /\ wire'[socketRef][t][Len(wire'[socketRef][t])] = op
      BY <3>1, <3>2, LastAppended
    <3>4. Promised(socketRef, t)' <=> op = "subscribe"
      BY <3>3 DEF Promised
    <3> QED
      BY <2>2, <3>4
  <2>3. CASE u # t
    <3>1. wire'[socketRef][u] = wire[socketRef][u] /\ listeners'[u] = listeners[u]
      BY <1>1, <2>1, <2>3
    <3> QED
      BY <2>1, <3>1 DEF Promised, Listened
  <2> QED
    BY <2>2, <2>3
<1>4. Current'
  BY <1>3 DEF Current, InStep, InUse
<1> QED
  BY <1>2, <1>4 DEF Sync

\* A step that changes no socket and no answer to Listened.
LEMMA SameSync ==
  ASSUME Sync, UNCHANGED <<socketRef, at, groups, wire>>,
         \A u \in Topics : Listened(u)' <=> Listened(u)
  PROVE  Sync'
BY DEF Sync, Fresh, Idle, Current, InUse, InStep, Promised

LEMMA SubscribeSync ==
  ASSUME Typed, Sync, NEW c \in Components, NEW t \in Topics, Subscribe(c, t) PROVE Sync'
<1>1. /\ listeners'[t] = listeners[t] \cup {c}
      /\ \A u \in Topics : u # t => listeners'[u] = listeners[u]
      /\ UNCHANGED <<socketRef, at, groups>>
  BY DEF Subscribe, Typed, TypeOK, provider
<1>2. Listened(t)'
  BY <1>1 DEF Listened
<1>3. CASE Listened(t)
  <2>1. \A u \in Topics : Listened(u)' <=> Listened(u)
    BY <1>1, <1>2, <1>3 DEF Listened
  <2>2. UNCHANGED wire
    BY <1>3 DEF Subscribe
  <2> QED
    BY <1>1, <2>1, <2>2, SameSync
<1>4. CASE ~Listened(t)
  <2>1. Said("subscribe", t) /\ "subscribe" \in Commands
    BY <1>4 DEF Subscribe, Commands
  <2> QED
    BY <1>1, <1>2, <2>1, SaidSync
<1> QED
  BY <1>3, <1>4

LEMMA UnsubscribeSync ==
  ASSUME Typed, Sync, NEW c \in Components, NEW t \in Topics, Unsubscribe(c, t) PROVE Sync'
<1>1. /\ listeners'[t] = listeners[t] \ {c} /\ c \in listeners[t]
      /\ \A u \in Topics : u # t => listeners'[u] = listeners[u]
      /\ UNCHANGED <<socketRef, at, groups>>
  BY DEF Unsubscribe, Typed, TypeOK, provider
<1>2. CASE listeners[t] = {c}
  <2>1. ~Listened(t)'
    BY <1>1, <1>2 DEF Listened
  <2>2. Said("unsubscribe", t) /\ "unsubscribe" \in Commands
    BY <1>2 DEF Unsubscribe, Commands
  <2> QED
    BY <1>1, <2>1, <2>2, SaidSync
<1>3. CASE listeners[t] # {c}
  <2>1. \A u \in Topics : Listened(u)' <=> Listened(u)
    BY <1>1, <1>3 DEF Listened
  <2>2. UNCHANGED wire
    BY <1>3 DEF Unsubscribe
  <2> QED
    BY <1>1, <2>1, <2>2, SameSync
<1> QED
  BY <1>2, <1>3

LEMMA ServesSync == ASSUME Typed, Sync, NEW s \in Sockets, NEW t \in Topics, Serves(s, t) PROVE Sync'
<1>1. /\ at[s] = "open" /\ wire[s][t] # <<>>
      /\ UNCHANGED <<socketRef, at, listeners>>
      /\ wire'[s][t] = Tail(wire[s][t])
      /\ \A r \in Sockets, u \in Topics : r # s \/ u # t => wire'[r][u] = wire[r][u]
  BY ServesEffect DEF Serves, provider
<1>2. /\ t \in groups'[s] <=> Head(wire[s][t]) = "subscribe"
      /\ \A u \in Topics : u # t => (u \in groups'[s] <=> u \in groups[s])
      /\ \A r \in Sockets : r # s => groups'[r] = groups[r]
  BY DEF Serves, Typed, TypeOK
<1>3. Fresh'
  BY <1>1, <1>2 DEF Sync, Fresh, Idle
<1>4. Promised(s, t)' <=> Promised(s, t)
  <2>1. wire[s][t] \in Seq(Commands)
    BY DEF Typed, TypeOK
  <2>2. CASE Tail(wire[s][t]) = <<>>
    BY <1>1, <1>2, <2>1, <2>2, TailOfOne DEF Promised
  <2>3. CASE Tail(wire[s][t]) # <<>>
    BY <1>1, <2>1, <2>3, LastOfTail DEF Promised
  <2> QED
    BY <2>2, <2>3
<1>5. \A r \in Sockets, u \in Topics : r # s \/ u # t => (Promised(r, u)' <=> Promised(r, u))
  BY <1>1, <1>2 DEF Promised
<1>6. Current'
  <2>1. SUFFICES ASSUME InUse' PROVE InStep(socketRef)'
    BY DEF Current
  <2>2. socketRef \in Sockets /\ InUse /\ socketRef' = socketRef
    BY <1>1, <2>1 DEF InUse, Typed, TypeOK
  <2>3. ASSUME NEW u \in Topics PROVE Promised(socketRef, u)' <=> Promised(socketRef, u)
    <3>1. CASE socketRef = s /\ u = t
      BY <1>4, <2>2, <3>1 DEF Promised
    <3>2. CASE socketRef # s \/ u # t
      <4>1. wire'[socketRef][u] = wire[socketRef][u]
        BY <1>1, <2>2, <3>2
      <4>2. u \in groups'[socketRef] <=> u \in groups[socketRef]
        BY <1>2, <2>2, <3>2
      <4> QED
        BY <2>2, <4>1, <4>2 DEF Promised
    <3> QED
      BY <3>1, <3>2
  <2>4. \A u \in Topics : Listened(u)' <=> Listened(u)
    BY <1>1 DEF Listened
  <2> QED
    BY <2>2, <2>3, <2>4 DEF Sync, Current, InStep
<1> QED
  BY <1>3, <1>6 DEF Sync

LEMMA StepSync == ASSUME Typed, Sync, [Next]_vars PROVE Sync'
<1>1. ASSUME UNCHANGED <<socketRef, at, groups, wire, listeners>> PROVE Sync'
  BY <1>1, SameSync DEF Listened
<1>2. CASE TimerFires \/ StrayFires
  BY <1>2, ConnectSync DEF TimerFires, StrayFires
<1>3. ASSUME NEW s \in Sockets, NEW t \in Topics, Hears(s, t)
      PROVE  UNCHANGED <<socketRef, at, groups, wire, listeners>>
  BY <1>3 DEF Hears, provider
<1>4. ASSUME NEW t \in Topics, Reads(t) \/ Arrives(t) \/ Forgets(t) \/ Saves(t)
            \/ Broadcast(t) \/ Commits(t)
      PROVE  UNCHANGED <<socketRef, at, groups, wire, listeners>>
  BY <1>4 DEF Reads, Arrives, Forgets, Saves, Broadcast, Commits, socket, provider
<1>5. CASE UNCHANGED vars
  BY <1>1, <1>5 DEF vars, socket, provider
<1> QED
  BY <1>1, <1>2, <1>3, <1>4, <1>5, UserChangesSync, LogoutSync, OpensSync, DropsSync, EndsSync,
     SubscribeSync, UnsubscribeSync, ServesSync DEF Next

\* The consumer of the socket in use is in the groups of the topics listened to, as
\* soon as it has run what it was sent (resubscribeAll, subscribe, receive_json).
THEOREM GroupsFollow == Spec => []Resubscribed
<1>1. Init => Sync
  BY DEF Init, Sync, Fresh, Idle, Current, InUse
<1>2. Sync => Resubscribed
  BY DEF Sync, Current, InUse, InStep, Promised, Resubscribed
<1> QED
  BY <1>1, <1>2, InitTyped, StepTyped, StepSync, PTL DEF Spec

=============================================================================
