---------------------------- MODULE SessionsProofs ----------------------------
(***************************************************************************)
(* Theorems about Sessions, for any users, sockets, lifetimes and waits.   *)
(***************************************************************************)
EXTENDS Sessions, TLAPS

\* The types the argument needs: those of the clock, the rows and the tokens.
RowTypes ==
    /\ clock \in Nat
    /\ role \in [Users -> Ranks] /\ active \in [Users -> BOOLEAN]
    /\ stopped \in [Users -> [Ranks -> Int]]
    /\ tokens \subseteq Token
    /\ op \in [Users -> [stage : {"none", "asked", "read"}, rank : Ranks, age : 0 .. MaxWait]]

\* An operation that has read the row carries a rank its user held when it did,
\* and an access token expires a life and a wait after that at the latest.
Entitled ==
    /\ \A u \in Users, r \in Ranks : stopped[u][r] <= clock
    /\ \A u \in Users, r \in Ranks :
           op[u].stage = "read" /\ r <= op[u].rank =>
               op[u].age <= clock /\ clock <= LastHeld(u, r) + op[u].age
    /\ \A t \in tokens, r \in Ranks :
           t.type = "access" /\ r <= t.rank =>
               LastHeld(t.sub, r) >= 0 /\ t.exp <= LastHeld(t.sub, r) + AccessLife + MaxWait

RoleInv == RowTypes /\ Entitled

LEMMA InitRole == Init => RoleInv
<1> SUFFICES ASSUME Init PROVE RoleInv
  OBVIOUS
<1> USE SessionsAssumption DEF Init, Ranks
<1>1. RowTypes
  BY DEF RowTypes, NoOp
<1>2. Entitled
  BY DEF Entitled, NoOp
<1>3. QED
  BY <1>1, <1>2 DEF RoleInv

LEMMA LastHeldType ==
    ASSUME RoleInv, NEW u \in Users, NEW r \in Ranks
    PROVE  LastHeld(u, r) \in Int /\ LastHeld(u, r) <= clock
BY DEF RoleInv, RowTypes, Entitled, LastHeld

\* When somebody last held a rank never moves back.
LEMMA LastHeldGrows ==
    ASSUME RoleInv, NEW u \in Users, NEW r \in Ranks,
           \/ UNCHANGED database /\ clock' \in {clock, clock + 1}
           \/ \E v \in Users, rank \in Ranks, on \in BOOLEAN : Change(v, rank, on)
    PROVE  LastHeld(u, r)' >= LastHeld(u, r)
<1>1. LastHeld(u, r) \in Int /\ LastHeld(u, r) <= clock /\ clock \in Nat
  BY LastHeldType DEF RoleInv, RowTypes
<1>2. CASE UNCHANGED database /\ clock' \in {clock, clock + 1}
  BY <1>1, <1>2 DEF LastHeld, Holds, database
<1>3. ASSUME NEW v \in Users, NEW rank \in Ranks, NEW on \in BOOLEAN, Change(v, rank, on)
      PROVE  LastHeld(u, r)' >= LastHeld(u, r)
  <2>1. clock' = clock
    BY <1>3 DEF Change
  <2>2. stopped'[u][r] = IF u = v /\ Holds(u, r) THEN clock ELSE stopped[u][r]
    BY <1>3 DEF Change, RoleInv, RowTypes
  <2>3. u # v => (Holds(u, r)' <=> Holds(u, r))
    BY <1>3 DEF Change, Holds, RoleInv, RowTypes
  <2>4. QED
    BY <1>1, <2>1, <2>2, <2>3 DEF LastHeld
<1>4. QED
  BY <1>2, <1>3

\* Entitled goes on to hold of what a step leaves alone.
LEMMA EntitledStays ==
    ASSUME RoleInv, RowTypes', UNCHANGED clock,
           \/ UNCHANGED database
           \/ \E v \in Users, rank \in Ranks, on \in BOOLEAN : Change(v, rank, on)
    PROVE  /\ \A u \in Users, r \in Ranks : stopped'[u][r] <= clock'
           /\ \A u \in Users, r \in Ranks :
                  op'[u] = op[u] /\ op[u].stage = "read" /\ r <= op[u].rank =>
                      op[u].age <= clock' /\ clock' <= LastHeld(u, r)' + op[u].age
           /\ \A t \in tokens, r \in Ranks :
                  t.type = "access" /\ r <= t.rank =>
                      /\ LastHeld(t.sub, r)' >= 0
                      /\ t.exp <= LastHeld(t.sub, r)' + AccessLife + MaxWait
<1>1. \A u \in Users, r \in Ranks : LastHeld(u, r)' >= LastHeld(u, r)
  BY LastHeldGrows DEF RoleInv, RowTypes
<1>2. \A u \in Users, r \in Ranks : LastHeld(u, r) \in Int /\ LastHeld(u, r)' \in Int
  BY LastHeldType DEF RowTypes, LastHeld
<1>3. \A u \in Users, r \in Ranks : stopped'[u][r] <= clock'
  <2>1. clock \in Nat /\ \A u \in Users, r \in Ranks : stopped[u][r] <= clock
    BY DEF RoleInv, RowTypes, Entitled
  <2>2. CASE UNCHANGED database
    BY <2>1, <2>2 DEF database
  <2>3. ASSUME NEW v \in Users, NEW rank \in Ranks, NEW on \in BOOLEAN, Change(v, rank, on),
               NEW u \in Users, NEW r \in Ranks
        PROVE  stopped'[u][r] <= clock'
    <3>1. stopped'[u][r] = IF u = v /\ Holds(u, r) THEN clock ELSE stopped[u][r]
      BY <2>3 DEF Change, RoleInv, RowTypes
    <3>2. QED
      BY <2>1, <3>1
  <2>4. QED
    BY <2>2, <2>3
<1>4. ASSUME NEW u \in Users, NEW r \in Ranks,
             op'[u] = op[u], op[u].stage = "read", r <= op[u].rank
      PROVE  op[u].age <= clock' /\ clock' <= LastHeld(u, r)' + op[u].age
  <2>1. op[u].age <= clock /\ clock <= LastHeld(u, r) + op[u].age
    BY <1>4 DEF RoleInv, Entitled
  <2>2. op[u].age \in Nat /\ clock \in Nat
    BY DEF RoleInv, RowTypes
  <2>3. QED
    BY <1>1, <1>2, <2>1, <2>2
<1>5. ASSUME NEW t \in tokens, NEW r \in Ranks, t.type = "access", r <= t.rank
      PROVE  /\ LastHeld(t.sub, r)' >= 0
             /\ t.exp <= LastHeld(t.sub, r)' + AccessLife + MaxWait
  <2>1. LastHeld(t.sub, r) >= 0 /\ t.exp <= LastHeld(t.sub, r) + AccessLife + MaxWait
    BY <1>5 DEF RoleInv, Entitled
  <2>2. t.sub \in Users /\ t.exp \in Nat
    BY DEF RoleInv, RowTypes, Token
  <2>3. QED
    BY <1>1, <1>2, <2>1, <2>2, SessionsAssumption
<1>6. QED
  BY <1>3, <1>4, <1>5

\* So it does when, besides, an operation begins, asks, or reads the row.
LEMMA ReadsEntitled ==
    ASSUME RoleInv, RowTypes', UNCHANGED <<clock, tokens>>,
           \/ UNCHANGED database
           \/ \E v \in Users, rank \in Ranks, on \in BOOLEAN : Change(v, rank, on),
           \A v \in Users :
               \/ op'[v] = op[v]
               \/ op'[v].stage # "read"
               \/ active'[v] /\ op'[v].rank = role'[v] /\ op'[v].age = 0
    PROVE  RoleInv'
<1> USE SessionsAssumption DEF RowTypes
<1>1. ASSUME NEW u \in Users, NEW r \in Ranks, op'[u].stage = "read", r <= op'[u].rank
      PROVE  op'[u].age <= clock' /\ clock' <= LastHeld(u, r)' + op'[u].age
  <2>1. CASE op'[u] = op[u]
    BY <1>1, <2>1, EntitledStays
  <2>2. CASE active'[u] /\ op'[u].rank = role'[u] /\ op'[u].age = 0
    <3>1. LastHeld(u, r)' = clock'
      BY <1>1, <2>2 DEF LastHeld, Holds
    <3>2. QED
      BY <2>2, <3>1
  <2>3. QED
    BY <1>1, <2>1, <2>2
<1>2. QED
  BY <1>1, EntitledStays DEF RoleInv, Entitled

\* A socket's handler touches no row, token or clock.
LEMMA SocketKeeps == ASSUME NEW s \in Sockets, Socket(s) PROVE Keep
<1>1. ASSUME NEW t \in tokens, NEW topic \in Topics, Handshake(s, t, topic) PROVE Keep
  BY <1>1, Zenon DEF Handshake
<1>2. ASSUME NEW topic \in Topics, PassOver(s, topic) PROVE Keep
  BY <1>2, Zenon DEF PassOver
<1>3. ASSUME \/ Subscribe(s) \/ SubscribeFails(s) \/ Leave(s) \/ Send(s) \/ ListenFails(s)
             \/ Release(s) \/ ReleaseFails(s)
      PROVE  Keep
  BY <1>3, Zenon DEF Subscribe, SubscribeFails, Leave, Send, ListenFails, Release, ReleaseFails
<1>4. QED
  BY <1>1, <1>2, <1>3, Zenon DEF Socket

LEMMA NextRole == RoleInv /\ [Next]_vars => RoleInv'
<1> SUFFICES ASSUME RoleInv, [Next]_vars PROVE RoleInv'
  OBVIOUS
<1> USE SessionsAssumption DEF RowTypes
<1>1. ASSUME UNCHANGED <<clock, database, tokens, op>> PROVE RoleInv'
  <2>1. RowTypes'
    BY <1>1 DEF RoleInv, database
  <2>2. QED
    BY <1>1, <2>1, ReadsEntitled
<1>2. ASSUME NEW u \in Users, NEW o, op' = [op EXCEPT ![u] = o],
             o \in [stage : {"none", "asked", "read"}, rank : Ranks, age : 0 .. MaxWait],
             o.stage # "read" \/ (active[u] /\ o.rank = role[u] /\ o.age = 0),
             UNCHANGED <<clock, database, tokens>>
      PROVE  RoleInv'
  <2>1. RowTypes'
    BY <1>2 DEF RoleInv, database
  <2>2. op'[u] = o /\ \A v \in Users : v # u => op'[v] = op[v]
    BY <1>2 DEF RoleInv
  <2>3. \A v \in Users :
            \/ op'[v] = op[v]
            \/ op'[v].stage # "read"
            \/ active'[v] /\ op'[v].rank = role'[v] /\ op'[v].age = 0
    BY <1>2, <2>2 DEF database
  <2>4. QED
    BY <1>2, <2>1, <2>3, ReadsEntitled
<1>3. ASSUME NEW u \in Users, Issue(u) PROVE RoleInv'
  <2>1. RowTypes'
    BY <1>3 DEF Issue, RoleInv, database, NoOp, Token, Access, Refresh, Ranks
  <2>2. /\ UNCHANGED <<clock, database>>
        /\ tokens' = tokens \union {Access(u, op[u].rank), Refresh(u)}
        /\ op'[u].stage # "read" /\ \A v \in Users : v # u => op'[v] = op[v]
    BY <1>3 DEF Issue, RoleInv, NoOp
  <2>3. ASSUME NEW r \in Ranks, r <= op[u].rank
        PROVE  /\ LastHeld(u, r)' >= 0
               /\ clock + AccessLife <= LastHeld(u, r)' + AccessLife + MaxWait
    <3>1. op[u].age <= clock /\ clock <= LastHeld(u, r) + op[u].age
      BY <1>3, <2>3 DEF Issue, RoleInv, Entitled
    <3>2. LastHeld(u, r)' = LastHeld(u, r) /\ LastHeld(u, r) \in Int
      BY <2>2, LastHeldType DEF LastHeld, Holds, database
    <3>3. op[u].age \in 0 .. MaxWait /\ clock \in Nat
      BY DEF RoleInv
    <3>4. QED
      BY <3>1, <3>2, <3>3
  <2>4. ASSUME NEW t \in tokens', NEW r \in Ranks, t.type = "access", r <= t.rank
        PROVE  LastHeld(t.sub, r)' >= 0 /\ t.exp <= LastHeld(t.sub, r)' + AccessLife + MaxWait
    <3>1. CASE t \in tokens
      BY <2>1, <2>2, <2>4, <3>1, EntitledStays
    <3>2. CASE t \notin tokens
      <4>1. t = Access(u, op[u].rank)
        BY <2>2, <2>4, <3>2 DEF Refresh
      <4>2. t.sub = u /\ t.rank = op[u].rank /\ t.exp = clock + AccessLife
        BY <4>1 DEF Access
      <4>3. QED
        BY <2>3, <2>4, <4>2
    <3>3. QED
      BY <3>1, <3>2
  <2>5. ASSUME NEW v \in Users, NEW r \in Ranks, op'[v].stage = "read", r <= op'[v].rank
        PROVE  op'[v].age <= clock' /\ clock' <= LastHeld(v, r)' + op'[v].age
    BY <2>1, <2>2, <2>5, EntitledStays
  <2>6. \A v \in Users, r \in Ranks : stopped'[v][r] <= clock'
    BY <2>1, <2>2, EntitledStays
  <2>7. QED
    BY <2>1, <2>4, <2>5, <2>6 DEF Entitled, RoleInv
<1>4. ASSUME NEW u \in Users, NEW rank \in Ranks, NEW on \in BOOLEAN, Change(u, rank, on)
      PROVE  RoleInv'
  <2>1. RowTypes'
    BY <1>4 DEF Change, RoleInv
  <2>2. UNCHANGED <<clock, tokens, op>>
    BY <1>4 DEF Change
  <2>3. QED
    BY <1>4, <2>1, <2>2, ReadsEntitled
<1>5. CASE Tick
  <2>1. /\ clock' = clock + 1 /\ UNCHANGED database
        /\ tokens' \subseteq tokens
        /\ \A u \in Users : op[u].stage = "read" => op[u].age < MaxWait
        /\ \A u \in Users : op[u].stage # "read" => op'[u] = op[u]
        /\ \A u \in Users : op[u].stage = "read" => op'[u] = [op[u] EXCEPT !.age = @ + 1]
        /\ op' = [u \in Users |-> op'[u]]
    BY <1>5 DEF Tick
  <2>2. ASSUME NEW u \in Users, op[u].stage = "read"
        PROVE  op'[u] = [stage |-> "read", rank |-> op[u].rank, age |-> op[u].age + 1]
    <3>1. op[u] = [stage |-> "read", rank |-> op[u].rank, age |-> op[u].age]
      BY <2>2 DEF RoleInv
    <3>2. [[stage |-> "read", rank |-> op[u].rank, age |-> op[u].age] EXCEPT !.age = @ + 1]
              = [stage |-> "read", rank |-> op[u].rank, age |-> op[u].age + 1]
      OBVIOUS
    <3>3. QED
      BY <2>1, <2>2, <3>1, <3>2
  <2>3. RowTypes'
    <3>1. ASSUME NEW u \in Users
          PROVE  op'[u] \in [stage : {"none", "asked", "read"}, rank : Ranks, age : 0 .. MaxWait]
      <4>1. CASE op[u].stage = "read"
        BY <2>1, <2>2, <4>1 DEF RoleInv
      <4>2. CASE op[u].stage # "read"
        BY <2>1, <4>2 DEF RoleInv
      <4>3. QED
        BY <4>1, <4>2
    <3>2. op' \in [Users -> [stage : {"none", "asked", "read"}, rank : Ranks, age : 0 .. MaxWait]]
      BY <2>1, <3>1
    <3>3. QED
      BY <2>1, <3>2 DEF RoleInv, database
  <2>4. \A u \in Users, r \in Ranks :
            /\ LastHeld(u, r)' >= LastHeld(u, r)
            /\ LastHeld(u, r) \in Int /\ LastHeld(u, r)' \in Int
    BY <2>1, <2>3, LastHeldGrows, LastHeldType DEF LastHeld
  <2>5. \A u \in Users, r \in Ranks : stopped'[u][r] <= clock'
    BY <2>1 DEF RoleInv, Entitled, database
  <2>6. ASSUME NEW u \in Users, NEW r \in Ranks, op'[u].stage = "read", r <= op'[u].rank
        PROVE  op'[u].age <= clock' /\ clock' <= LastHeld(u, r)' + op'[u].age
    <3>1. op[u].stage = "read" /\ op'[u].rank = op[u].rank /\ op'[u].age = op[u].age + 1
      BY <2>1, <2>2, <2>6
    <3>2. op[u].age <= clock /\ clock <= LastHeld(u, r) + op[u].age
      BY <2>6, <3>1 DEF RoleInv, Entitled
    <3>3. op[u].age \in Nat /\ clock \in Nat
      BY DEF RoleInv
    <3>4. QED
      BY <2>1, <2>4, <3>1, <3>2, <3>3
  <2>7. ASSUME NEW t \in tokens', NEW r \in Ranks, t.type = "access", r <= t.rank
        PROVE  LastHeld(t.sub, r)' >= 0 /\ t.exp <= LastHeld(t.sub, r)' + AccessLife + MaxWait
    <3>1. t \in tokens /\ t.sub \in Users /\ t.exp \in Nat
      BY <2>1, <2>7 DEF RoleInv, Token
    <3>2. LastHeld(t.sub, r) >= 0 /\ t.exp <= LastHeld(t.sub, r) + AccessLife + MaxWait
      BY <2>7, <3>1 DEF RoleInv, Entitled
    <3>3. QED
      BY <2>4, <3>1, <3>2
  <2>8. QED
    BY <2>3, <2>5, <2>6, <2>7 DEF Entitled, RoleInv
<1>6. ASSUME NEW u \in Users, Login(u) PROVE RoleInv'
  <2>1. NoOp \in [stage : {"none", "asked", "read"}, rank : Ranks, age : 0 .. MaxWait]
    BY DEF NoOp, Ranks
  <2>2. [NoOp EXCEPT !.stage = "asked"] = [stage |-> "asked", rank |-> 0, age |-> 0]
    BY DEF NoOp
  <2>3. CASE LoginRead(u)
    <3>1. /\ active[u] /\ UNCHANGED <<clock, database, tokens>>
          /\ op' = [op EXCEPT ![u] = [stage |-> "read", rank |-> role[u], age |-> 0]]
      BY <2>3 DEF LoginRead
    <3>2. [stage |-> "read", rank |-> role[u], age |-> 0]
              \in [stage : {"none", "asked", "read"}, rank : Ranks, age : 0 .. MaxWait]
      BY DEF RoleInv
    <3>3. QED
      BY <1>2, <3>1, <3>2
  <2>4. CASE RefreshRead(u)
    <3>1. CASE active[u]
      <4>1. op' = [op EXCEPT ![u] = [stage |-> "read", rank |-> role[u], age |-> 0]]
            /\ UNCHANGED <<clock, database, tokens>>
        BY <2>4, <3>1 DEF RefreshRead
      <4>2. [stage |-> "read", rank |-> role[u], age |-> 0]
                \in [stage : {"none", "asked", "read"}, rank : Ranks, age : 0 .. MaxWait]
        BY DEF RoleInv
      <4>3. QED
        BY <1>2, <3>1, <4>1, <4>2
    <3>2. CASE ~active[u]
      <4>1. op' = [op EXCEPT ![u] = NoOp] /\ UNCHANGED <<clock, database, tokens>>
        BY <2>4, <3>2 DEF RefreshRead
      <4>2. NoOp.stage # "read"
        BY DEF NoOp
      <4>3. QED
        BY <1>2, <2>1, <4>1, <4>2
    <3>3. QED
      BY <3>1, <3>2
  <2>5. CASE GiveUp(u)
    BY <1>2, <2>1, <2>5 DEF GiveUp, NoOp
  <2>6. CASE \E t \in tokens : RefreshAsk(u, t)
    <3>1. op' = [op EXCEPT ![u] = [stage |-> "asked", rank |-> 0, age |-> 0]]
          /\ UNCHANGED <<clock, database, tokens>>
      BY <2>2, <2>6 DEF RefreshAsk
    <3>2. [stage |-> "asked", rank |-> 0, age |-> 0]
              \in [stage : {"none", "asked", "read"}, rank : Ranks, age : 0 .. MaxWait]
      BY DEF Ranks
    <3>3. QED
      BY <1>2, <3>1, <3>2
  <2>7. QED
    BY <1>3, <1>6, <2>3, <2>4, <2>5, <2>6 DEF Login
<1>7. ASSUME NEW s \in Sockets, Socket(s) PROVE RoleInv'
  BY <1>1, <1>7, SocketKeeps DEF Keep
<1>8. ASSUME NEW topic \in Topics, Publish(topic) \/ Silence(topic) \/ RemoveStrategy(topic)
      PROVE  RoleInv'
  BY <1>1, <1>8 DEF Publish, Silence, RemoveStrategy, Keep
<1>9. CASE RedisStops
  BY <1>1, <1>9 DEF RedisStops
<1>10. CASE UNCHANGED vars
  BY <1>1, <1>10 DEF vars
<1>11. QED
  BY <1>4, <1>5, <1>6, <1>7, <1>8, <1>9, <1>10 DEF Next

\* A token that is accepted was issued to somebody entitled, lately.
LEMMA AcceptedLately ==
    ASSUME RoleInv, NEW t \in tokens, NEW r \in Ranks,
           Decodes(t), t.type = "access", r <= t.rank
    PROVE  Lately(t.sub, r)
<1>1. LastHeld(t.sub, r) >= 0 /\ t.exp <= LastHeld(t.sub, r) + AccessLife + MaxWait
  BY DEF RoleInv, Entitled
<1>2. t.exp \in Nat /\ t.sub \in Users /\ clock \in Nat /\ t.exp >= clock
  BY DEF RoleInv, RowTypes, Token, Decodes
<1>3. LastHeld(t.sub, r) \in Int
  BY <1>2, LastHeldType
<1>4. QED
  BY <1>1, <1>2, <1>3, SessionsAssumption DEF Lately

\* However logins, refreshes and changes of a row interleave, who is allowed
\* something was entitled to it an access token's life and the wait of its
\* request ago at most (auth.py 84-91, rbac.py 38-68).
THEOREM SessionsRoleLag == Spec => []RoleLag
<1>1. ASSUME RoleInv PROVE RoleLag
  <2>1. ASSUME NEW t \in tokens PROVE t.rank \in 0 .. 2
    BY <1>1 DEF RoleInv, RowTypes, Token, Ranks
  <2>2. ASSUME NEW t \in tokens, NEW minimum \in Ranks, RequireRole(t, minimum)
        PROVE  Lately(t.sub, minimum)
    <3>1. Decodes(t) /\ t.type = "access" /\ minimum <= t.rank
      BY <2>1, <2>2 DEF RequireRole, CurrentUser, Ranks
    <3>2. QED
      BY <1>1, <3>1, AcceptedLately
  <2>3. ASSUME NEW t \in tokens, Admits(t) PROVE Lately(t.sub, 0)
    <3>1. Decodes(t) /\ t.type = "access" /\ 0 <= t.rank /\ 0 \in Ranks
      BY <2>1, <2>3 DEF Admits, Ranks
    <3>2. QED
      BY <1>1, <3>1, AcceptedLately
  <2>4. QED
    BY <2>2, <2>3 DEF RoleLag
<1>2. QED
  BY <1>1, InitRole, NextRole, PTL DEF Spec

-----------------------------------------------------------------------------
(* Types: the bounds of the clock and the changes, and the sockets. *)

\* What TypeOK says of the rows beyond RowTypes: the clock, and what it stamps, is bounded.
Bounds ==
    /\ clock \in 0 .. MaxTime /\ changes \in 0 .. MaxChanges
    /\ stopped \in [Users -> [Ranks -> -1 .. MaxTime]]

\* What it says of the sockets.
SocketRecord == [stage : {"closed", "accepted", "listening", "closing", "leaked"},
                 user : Users \union {NoUser}, topic : Topics, here : BOOLEAN]

SocketTypes ==
    /\ sock \in [Sockets -> SocketRecord]
    /\ pending \subseteq {s \in Sockets : Listening(s)} \X Topics
    /\ silent \subseteq Topics /\ removed \subseteq Strategies /\ answers \in BOOLEAN

LEMMA ClosedType == Closed \in SocketRecord /\ Closed.stage = "closed"
BY SessionsAssumption DEF Closed, SocketRecord

LEMMA InitTypes == Init => Bounds /\ SocketTypes
<1> SUFFICES ASSUME Init PROVE Bounds /\ SocketTypes
  OBVIOUS
<1>1. Bounds
  BY SessionsAssumption DEF Init, Bounds
<1>2. SocketTypes
  BY ClosedType DEF Init, SocketTypes
<1>3. QED
  BY <1>1, <1>2

\* Only the administrator and the clock move what is bounded, each within its guard.
LEMMA BoundsStay == RoleInv /\ Bounds /\ [Next]_vars => Bounds'
<1> SUFFICES ASSUME RoleInv, Bounds, [Next]_vars PROVE Bounds'
  OBVIOUS
<1> USE SessionsAssumption DEF Bounds
<1>1. CASE UNCHANGED <<clock, database>>
  BY <1>1 DEF database
<1>2. ASSUME NEW u \in Users, NEW rank \in Ranks, NEW on \in BOOLEAN, Change(u, rank, on)
      PROVE  Bounds'
  <2>1. /\ clock' = clock /\ changes < MaxChanges /\ changes' = changes + 1
        /\ stopped' = [stopped EXCEPT ![u] = [r \in Ranks |->
               IF Holds(u, r) THEN clock ELSE stopped[u][r]]]
    BY <1>2 DEF Change
  <2>2. [r \in Ranks |-> IF Holds(u, r) THEN clock ELSE stopped[u][r]] \in [Ranks -> -1 .. MaxTime]
    OBVIOUS
  <2>3. QED
    BY <2>1, <2>2
<1>3. CASE Tick
  BY <1>3 DEF Tick, database
<1>4. ASSUME NEW u \in Users, Login(u) PROVE UNCHANGED <<clock, database>>
  BY <1>4 DEF Login, LoginRead, RefreshRead, Issue, GiveUp, RefreshAsk
<1>5. ASSUME NEW s \in Sockets, Socket(s) PROVE UNCHANGED <<clock, database>>
  BY <1>5, SocketKeeps DEF Keep
<1>6. ASSUME NEW topic \in Topics, Publish(topic) \/ Silence(topic) \/ RemoveStrategy(topic)
      PROVE  UNCHANGED <<clock, database>>
  BY <1>6 DEF Publish, Silence, RemoveStrategy, Keep
<1>7. CASE RedisStops
  BY <1>1, <1>7 DEF RedisStops
<1>8. CASE UNCHANGED vars
  BY <1>1, <1>8 DEF vars
<1>9. QED
  BY <1>1, <1>2, <1>3, <1>4, <1>5, <1>6, <1>7, <1>8 DEF Next

\* A message waits only where a handler listens: it is taken, or dropped with the
\* subscription, before the handler goes further, and a socket opens with none.
LEMMA SocketTypesStay == RoleInv /\ SocketTypes /\ [Next]_vars => SocketTypes'
<1> SUFFICES ASSUME RoleInv, SocketTypes, [Next]_vars PROVE SocketTypes'
  OBVIOUS
<1> USE DEF SocketTypes, Listening
<1>1. CASE UNCHANGED sockets
  BY <1>1 DEF sockets
<1>2. ASSUME NEW s \in Sockets, Socket(s) PROVE SocketTypes'
  <2>1. ASSUME NEW v \in SocketRecord, sock' = [sock EXCEPT ![s] = v],
               v.stage = "listening" \/ \A e \in pending' : e[1] # s,
               pending' \subseteq pending, UNCHANGED <<silent, removed, answers>>
        PROVE  SocketTypes'
    <3>1. ASSUME NEW e \in pending' PROVE e \in {r \in Sockets : sock'[r].stage = "listening"} \X Topics
      <4>1. PICK r \in Sockets, topic \in Topics : e = <<r, topic>> /\ sock[r].stage = "listening"
        BY <2>1
      <4>2. r = s => v.stage = "listening"
        BY <2>1, <4>1
      <4>3. sock'[r] = IF r = s THEN v ELSE sock[r]
        BY <2>1
      <4>4. QED
        BY <4>1, <4>2, <4>3
    <3>2. sock' \in [Sockets -> SocketRecord]
      BY <2>1
    <3>3. QED
      BY <2>1, <3>1, <3>2
  <2>2. ASSUME NEW stage \in {"listening", "closing", "leaked"}, Stage(s, stage),
               stage = "listening" \/ \A e \in pending' : e[1] # s,
               pending' \subseteq pending, Keep
        PROVE  SocketTypes'
    <3>1. /\ [sock[s] EXCEPT !.stage = stage] \in SocketRecord
          /\ [sock[s] EXCEPT !.stage = stage].stage = stage
      BY DEF SocketRecord
    <3>2. sock' = [sock EXCEPT ![s] = [sock[s] EXCEPT !.stage = stage]]
      BY <2>2 DEF Stage
    <3>3. QED
      BY <2>1, <2>2, <3>1, <3>2 DEF Keep
  <2>3. sock[s].stage # "listening" => \A e \in pending : e[1] # s
    OBVIOUS
  <2>4. \A e \in pending \ Queue(s) : e[1] # s
    BY DEF Queue
  <2>5. ASSUME NEW t \in tokens, NEW topic \in Topics, Handshake(s, t, topic) PROVE SocketTypes'
    <3>1. t.sub \in Users
      BY DEF RoleInv, RowTypes, Token
    <3>2. [stage |-> "accepted", user |-> t.sub, topic |-> topic, here |-> TRUE] \in SocketRecord
      BY <3>1 DEF SocketRecord
    <3>3. sock' = [sock EXCEPT ![s] =
              [stage |-> "accepted", user |-> t.sub, topic |-> topic, here |-> TRUE]]
      BY <2>5 DEF Handshake
    <3>4. sock[s].stage = "closed" /\ pending' = pending /\ UNCHANGED <<silent, removed, answers>>
      BY <2>5 DEF Handshake, Keep
    <3>5. QED
      BY <2>1, <2>3, <3>2, <3>3, <3>4
  <2>6. CASE Subscribe(s)
    BY <2>2, <2>6 DEF Subscribe
  <2>7. CASE SubscribeFails(s)
    BY <2>2, <2>3, <2>7 DEF SubscribeFails
  <2>8. CASE Leave(s)
    <3>1. /\ [sock[s] EXCEPT !.here = FALSE] \in SocketRecord
          /\ [sock[s] EXCEPT !.here = FALSE].stage = sock[s].stage
      BY DEF SocketRecord
    <3>2. sock' = [sock EXCEPT ![s] = [sock[s] EXCEPT !.here = FALSE]]
      BY <2>8 DEF Leave
    <3>3. QED
      BY <2>1, <2>3, <2>8, <3>1, <3>2 DEF Leave, Keep
  <2>9. CASE Send(s)
    <3>1. CASE sock[s].here
      <4>1. sock[s].stage = "listening"
        BY <2>3, <2>9 DEF Send
      <4>2. sock' = [sock EXCEPT ![s] = sock[s]] /\ pending' \subseteq pending
        BY <2>9, <3>1 DEF Send, AfterSend
      <4>3. QED
        BY <2>1, <2>9, <4>1, <4>2 DEF Send, Keep
    <3>2. CASE ~sock[s].here
      <4>1. /\ [sock[s] EXCEPT !.stage = "closing"] \in SocketRecord
            /\ sock' = [sock EXCEPT ![s] = [sock[s] EXCEPT !.stage = "closing"]]
            /\ pending' = pending \ Queue(s)
        BY <2>9, <3>2 DEF Send, AfterSend, SocketRecord
      <4>2. QED
        BY <2>1, <2>4, <2>9, <4>1 DEF Send, Keep
    <3>3. QED
      BY <3>1, <3>2
  <2>10. ASSUME NEW topic \in Topics, PassOver(s, topic) PROVE SocketTypes'
    BY <2>10 DEF PassOver, Keep
  <2>11. CASE ListenFails(s)
    BY <2>2, <2>4, <2>11 DEF ListenFails
  <2>12. CASE Release(s)
    BY <2>1, <2>3, <2>12, ClosedType DEF Release, Keep
  <2>13. CASE ReleaseFails(s)
    BY <2>2, <2>3, <2>13 DEF ReleaseFails
  <2>14. QED
    BY <1>2, <2>5, <2>6, <2>7, <2>8, <2>9, <2>10, <2>11, <2>12, <2>13 DEF Socket
<1>3. ASSUME NEW topic \in Topics, Publish(topic) PROVE SocketTypes'
  BY <1>3 DEF Publish, Keep
<1>4. ASSUME NEW topic \in Topics, Silence(topic) \/ RemoveStrategy(topic) PROVE SocketTypes'
  BY <1>4 DEF Silence, RemoveStrategy
<1>5. CASE RedisStops
  BY <1>5 DEF RedisStops
<1>6. ASSUME NEW u \in Users, Login(u) PROVE UNCHANGED sockets
  BY <1>6 DEF Login, LoginRead, RefreshRead, Issue, GiveUp, RefreshAsk
<1>7. ASSUME NEW u \in Users, NEW rank \in Ranks, NEW on \in BOOLEAN, Change(u, rank, on)
      PROVE  UNCHANGED sockets
  BY <1>7 DEF Change
<1>8. CASE Tick
  BY <1>1, <1>8 DEF Tick
<1>9. CASE UNCHANGED vars
  BY <1>1, <1>9 DEF vars
<1>10. QED
  BY <1>1, <1>2, <1>3, <1>4, <1>5, <1>6, <1>7, <1>8, <1>9 DEF Next

\* Every variable keeps its type, and a message waits only for a socket whose handler
\* listens, however the clients leave and the commands of Redis fail (ws.py 37-54, 72-89).
THEOREM SessionsTypes == Spec => []TypeOK
<1>1. RoleInv /\ Bounds /\ SocketTypes => TypeOK
  BY DEF RoleInv, RowTypes, Bounds, SocketTypes, SocketRecord, TypeOK
<1>2. QED
  BY <1>1, InitRole, InitTypes, NextRole, BoundsStay, SocketTypesStay, PTL DEF Spec
===============================================================================
